---- MODULE Spec2Model ----
(***************************************************************************)
(* Contact Store of the business-card scanner: the dashboard's in-memory   *)
(* contact list (DashboardPage.tsx), its localStorage mirror, and the      *)
(* AddCardModal flows that hand contacts to the store.                     *)
(*                                                                         *)
(* Representation.  A JavaScript string that the code splits, trims or     *)
(* joins (the phone and email form fields) is a sequence of one-character  *)
(* strings, so split(','), trim() and join(', ') are computed as the code  *)
(* computes them.  `undefined` is the string Undefined for a text field,   *)
(* NoString for a character string and NoList for a list of strings.       *)
(***************************************************************************)
EXTENDS Integers, Sequences, FiniteSets, TLC

VARIABLES
  env,                   \* the browser environment of this run (fixed at start)
  now,                   \* the wall clock read by new Date()
  loaded,                \* what the useState initializer got from the mirror
  crashed,               \* the first render threw: React unmounts the page
  contacts,              \* DashboardPage state `contacts`
  mirror,                \* localStorage entry 'contacts'
  lastWrite,             \* outcome of the latest run of the mirror effect
  pendingOp,             \* handler suspended at its await (microtask continuation)
  isModalOpen,           \* DashboardPage state
  editingContact,        \* DashboardPage state: the contact handed to the modal
  step,                  \* AddCardModal state: 1 acquire, 2 review
  uploadMode,            \* AddCardModal state: "image" | "file"
  selectedImage,         \* AddCardModal state: a File is selected
  previewUrl,            \* AddCardModal state
  selectedDocumentFiles, \* AddCardModal state: kinds of the chosen files
  formData,              \* AddCardModal state
  bulkContacts,          \* AddCardModal state
  isProcessing,          \* AddCardModal state
  error,                 \* AddCardModal state: message key or Null
  inflight,              \* the extraction call awaiting the network, with its closure
  camera,                \* AddCardModal state of the capture UI and its pending requests
  detached,              \* what outlives an unmounted modal: calls, requests, streams
  exchange,              \* text handed between an exporter or the model and a parser
  last                   \* history: the handler that ran last and its argument

storeVars == <<loaded, crashed, contacts, mirror, lastWrite, pendingOp>>
modalVars == <<step, uploadMode, selectedImage, previewUrl, selectedDocumentFiles,
               formData, bulkContacts, isProcessing, error, inflight>>
vars == <<env, now, storeVars, isModalOpen, editingContact, modalVars, camera,
          detached, exchange, last>>

(***************************************************************************)
(* Bounds of the model.                                                    *)
(***************************************************************************)
MaxContacts == 2      \* contacts held by the store
MaxTime == 1          \* clock values 0..MaxTime
MaxBulk == 2          \* contacts extracted by one document parse
QuotaLen == 1         \* "quota" storage: a list longer than this does not fit
MaxRequests == 1      \* getUserMedia requests of openCamera pending at once
MaxCalls == 2         \* extraction calls of one modal awaited at once
MaxText == 4          \* pieces of a reply of the hosted model
MaxValue == 2         \* characters of a field value of an exported contact
MaxEntries == 2       \* phone numbers or email addresses of an exported contact
MaxShown == 2         \* contacts of a searched collection
MaxTerm == 2          \* characters of a search term
MaxTimers == 3        \* timeouts of the barcode scanner pending at once
MaxSections == 2      \* sections of a generated paper
MaxIdeas == 2         \* development ideas of a generated paper
MaxName == 7          \* characters of a name an avatar is drawn for

Ids == 1..(MaxContacts + 1)
Times == 0..MaxTime

(***************************************************************************)
(* JavaScript values.                                                      *)
(***************************************************************************)
Undefined == "undefined"
Null == "null"
NoString == <<Undefined>>
NoList == <<NoString>>

\* Boolean(s) for a text value: undefined and '' are falsy.
Truthy(s) == s # Undefined /\ s # ""
\* Boolean(s) for a character string.
TruthyStr(s) == s # NoString /\ s # <<>>

RECURSIVE SplitFrom(_, _, _)
\* String.prototype.split on the separators seps: always at least one piece.
SplitFrom(s, seps, cur) ==
  IF s = <<>> THEN <<cur>>
  ELSE IF Head(s) \in seps THEN <<cur>> \o SplitFrom(Tail(s), seps, <<>>)
       ELSE SplitFrom(Tail(s), seps, Append(cur, Head(s)))
Split(s, seps) == SplitFrom(s, seps, <<>>)

\* White space and line terminators: what trim removes and \\s matches
Whitespace == {" ", "\n", "\r"}
RECURSIVE TrimStart(_)
TrimStart(s) == IF s # <<>> /\ Head(s) \in Whitespace THEN TrimStart(Tail(s)) ELSE s
RECURSIVE TrimEnd(_)
TrimEnd(s) ==
  IF s # <<>> /\ s[Len(s)] \in Whitespace
  THEN TrimEnd(SubSeq(s, 1, Len(s) - 1)) ELSE s
\* String.prototype.trim
Trim(s) == TrimEnd(TrimStart(s))

MapTrim(l) == [i \in 1..Len(l) |-> Trim(l[i])]
IsNonEmptyStr(s) == s # <<>>
\* Array.prototype.filter(Boolean) on a list of strings
FilterBoolean(l) == SelectSeq(l, IsNonEmptyStr)

RECURSIVE Join(_, _)
\* Array.prototype.join(sep)
Join(l, sep) ==
  IF l = <<>> THEN <<>>
  ELSE IF Len(l) = 1 THEN l[1]
       ELSE l[1] \o sep \o Join(Tail(l), sep)

(***************************************************************************)
(* Contact records (types.ts) and their JSON form.                         *)
(***************************************************************************)
ContactKeys == {"id", "name", "phone", "email", "cardImageUrl", "createdAt", "updatedAt"}

\* Reading a property that the object does not have yields undefined; the
\* numeric stand-ins are 0 for a missing id and -1 for a missing timestamp.
UndefinedAt(k) ==
  CASE k \in {"phone", "email"} -> NoList
    [] k \in {"name", "cardImageUrl"} -> Undefined
    [] k = "id" -> 0
    [] OTHER -> -1

IsUndefinedAt(c, k) == c[k] = UndefinedAt(k)

\* JSON.stringify of one object: a property whose value is undefined is omitted.
StringifyContact(c) ==
  [k \in {x \in ContactKeys : ~IsUndefinedAt(c, x)} |-> c[k]]
\* JSON.parse of one object, read through the Contact interface.
ParseContact(o) ==
  [k \in ContactKeys |-> IF k \in DOMAIN o THEN o[k] ELSE UndefinedAt(k)]

Stringify(cs) == [i \in 1..Len(cs) |-> StringifyContact(cs[i])]
Parse(items) == [i \in 1..Len(items) |-> ParseContact(items[i])]

\* localStorage entry: absent, text that is not JSON, or JSON text of some shape.
Absent == [kind |-> "absent", type |-> "none", items |-> <<>>]
Garbage == [kind |-> "garbage", type |-> "none", items |-> <<>>]
JsonText(type, items) == [kind |-> "json", type |-> type, items |-> items]

\* useState initializer of `contacts`: getItem, JSON.parse, [] on absence or throw.
Load(m) ==
  IF m.kind = "json"
  THEN [type |-> m.type, items |-> IF m.type = "array" THEN Parse(m.items) ELSE <<>>]
  ELSE [type |-> "array", items |-> <<>>]

\* The first render evaluates contacts.filter(c => c.name.toLowerCase()...): it
\* throws when the state is no array or an element has no name.
RenderOk(v) ==
  /\ v.type = "array"
  /\ \A i \in 1..Len(v.items) : v.items[i].name # Undefined

IdsOf(cs) == {cs[i].id : i \in 1..Len(cs)}
UniqueIds(cs) == \A i, j \in 1..Len(cs) : cs[i].id = cs[j].id => i = j

(***************************************************************************)
(* The mirror effect: useEffect(() => setItem('contacts', stringify), [contacts]) *)
(***************************************************************************)
\* Whether localStorage.setItem accepts the list in this environment.
WriteFits(cs) ==
  CASE env.storage = "ok" -> TRUE
    [] env.storage = "full" -> FALSE
    [] OTHER -> Len(cs) <= QuotaLen

\* the effect gives up once setItem has thrown
MirrorEffectStopsAfterFailure(cs) ==
  IF lastWrite # "failed" /\ WriteFits(cs)
  THEN mirror' = JsonText("array", Stringify(cs)) /\ lastWrite' = "ok"
  ELSE mirror' = mirror /\ lastWrite' = "failed"

\* the effect keyed on the list's length instead of the list
MirrorEffectOnLengthChange(cs) ==
  IF Len(cs) = Len(contacts)
  THEN mirror' = mirror /\ lastWrite' = lastWrite
  ELSE IF WriteFits(cs)
       THEN mirror' = JsonText("array", Stringify(cs)) /\ lastWrite' = "ok"
       ELSE mirror' = mirror /\ lastWrite' = "failed"

\* Runs after every render in which `contacts` is a new array; a throw of
\* setItem is caught and logged.
MirrorEffect(cs) ==
  IF WriteFits(cs)
  THEN mirror' = JsonText("array", Stringify(cs)) /\ lastWrite' = "ok"
  ELSE mirror' = mirror /\ lastWrite' = "failed"

(***************************************************************************)
(* avatarGenerator.ts                                                      *)
(***************************************************************************)
GradientAvatar == "data:gradient-avatar"
PersonasAvatar == "https://api.dicebear.com/personas"
Throws == "throws"

\* generateAvatar: the canvas styles draw on a 2d context and throw where the
\* browser gives none; the DiceBear styles only build a URL.  Every branch
\* returns without I/O.
generateAvatar(name, style) ==
  IF style \in {"initials", "gradient"}
  THEN IF env.canvas THEN GradientAvatar ELSE Throws
  ELSE PersonasAvatar

\* autoGenerateAvatar(contact, preferredStyle), given contact.imageUrl and
\* contact.name.
autoGenerateAvatar(imageUrl, name, preferredStyle) ==
  IF Truthy(imageUrl) THEN imageUrl
  ELSE IF ~Truthy(name) THEN Undefined
  ELSE IF generateAvatar(name, preferredStyle) = Throws THEN Undefined
  ELSE generateAvatar(name, preferredStyle)

\* The Contact interface has cardImageUrl and no imageUrl: the property that
\* autoGenerateAvatar reads is undefined on every Contact.
ImageUrlOf(c) == Undefined

(***************************************************************************)
(* Scheduling.  The promises awaited by handleAddContact and by            *)
(* handleGenerateAvatarAction come from generateAvatar, which settles      *)
(* without I/O: their continuations are microtasks, run when the handler's *)
(* task ends and before the event loop takes the next user event.          *)
(***************************************************************************)
AvatarAwaitsNetwork == FALSE
AvatarSettlesWithoutIO == TRUE

\* history value of a handler that leaves the store alone
UiEvent == [op |-> "ui", id |-> 0]
\* An awaited extraction call settles in a mounted modal, or after its modal
\* was unmounted.
Completion == [op |-> "completion", id |-> 0]
LateCompletion == [op |-> "lateCompletion", id |-> 0]
\* A parse ends in the review of a list, not of the form.
BulkCompletion == [op |-> "completion", id |-> 0, review |-> "bulk"]
\* An extraction or parse ends in setError, under the named condition.
Failed(condition) == [op |-> "failed", id |-> 0, cond |-> condition]

NoOp == [kind |-> "none", batch |-> <<>>, id |-> 0, url |-> Undefined]
UserEventMayRun ==
  /\ ~crashed
  /\ AvatarSettlesWithoutIO => pendingOp = NoOp

\* A button of a rendered card is operated
CardEventMayRun == UserEventMayRun /\ (isModalOpen => env.behind)

(***************************************************************************)
(* Inputs of a run.                                                        *)
(***************************************************************************)
\* The environment of a run: whether setItem accepts writes (storage), whether
\* the clock advances between events (clock), whether a 2d canvas exists
\* (canvas), whether the network and the hosted model answer without fault
\* (network), and what the user does: which upload mode is used (source), which
\* of the phone and email fields is entered and extracted (fields), and whether
\* the cards behind the open modal are operated, which the keyboard allows
\* since the modal traps no focus (behind), and whether a second name occurs
\* on cards and in the form (rename), whether the camera is used, on a
\* browser that has navigator.mediaDevices (media), and whether an
\* extraction call is still answered after its modal is gone (late).
BaseEnv ==
  [storage |-> "ok", clock |-> FALSE, canvas |-> TRUE, network |-> "good",
   source |-> "image", fields |-> "none", behind |-> FALSE, rename |-> FALSE,
   media |-> FALSE, late |-> FALSE]
Environments ==
  { [BaseEnv EXCEPT !.clock = TRUE],
    [BaseEnv EXCEPT !.storage = "quota"],
    [BaseEnv EXCEPT !.storage = "full", !.canvas = FALSE],
    [BaseEnv EXCEPT !.network = "bad"],
    [BaseEnv EXCEPT !.behind = TRUE],
    [BaseEnv EXCEPT !.rename = TRUE],
    [BaseEnv EXCEPT !.late = TRUE],
    [BaseEnv EXCEPT !.source = "camera", !.media = TRUE, !.network = "bad"],
    [BaseEnv EXCEPT !.fields = "phone"],
    [BaseEnv EXCEPT !.source = "file", !.fields = "email"],
    [BaseEnv EXCEPT !.source = "file", !.network = "bad", !.canvas = FALSE] }

\* Names on cards
Names == IF env.rename THEN {"A", "B"} ELSE {"A"}
ScannedCard == "data:scanned-card"

\* Character strings typed into the phone or email input.
TypedStrings(field) ==
  IF env.fields = field /\ env.source = "image"
  THEN {<<>>, <<",">>, <<"5", ",">>, <<"5", ",", " ", "6">>}
  ELSE {}
\* Lists of strings that the hosted model returns for phone or email.
ModelLists(field) ==
  IF env.fields # field THEN {NoList}
  ELSE IF env.source = "image" THEN {NoList, <<>>, << <<>> >>, << <<"5">> >>}
       ELSE {NoList, << <<>> >>}
\* Cells of a CSV row.
CsvCells(field) ==
  IF env.fields = field THEN {<<>>, <<"5", ",">>} ELSE {<<>>}

OcrResults ==
  [name : {""} \cup Names, phone : ModelLists("phone"), email : ModelLists("email")]
CsvRows ==
  [name : {""} \cup Names, phone : CsvCells("phone"), email : CsvCells("email")]

NoContact ==
  [id |-> 0, name |-> Undefined, phone |-> NoList, email |-> NoList,
   cardImageUrl |-> Undefined, createdAt |-> -1, updatedAt |-> -1]
\* A contact saved by an earlier session of the page
Seed ==
  [id |-> 1, name |-> "A", phone |-> << <<"5">> >>, email |-> NoList,
   cardImageUrl |-> Undefined, createdAt |-> 0, updatedAt |-> 0]

\* Contents of the 'contacts' entry when the page starts.
InitialMirrors ==
  { Absent, Garbage,
    JsonText("null", <<>>), JsonText("object", <<>>),
    JsonText("array", << [id |-> 1] >>),
    JsonText("array", <<>>),
    JsonText("array", Stringify(<<Seed>>)) }

(***************************************************************************)
(* AddCardModal state at mount.                                            *)
(***************************************************************************)
EmptyForm == [name |-> Undefined, phone |-> NoString, email |-> NoString]
NoCall == [kind |-> "none", files |-> <<>>, n |-> 0]
\* isCameraOpen, videoStream (a stream with live tracks is held), the
\* getUserMedia requests of openCamera not yet answered, isScanningQR, and
\* whether a decodeFromVideoElement call is pending.
CameraAtMount ==
  [isCameraOpen |-> FALSE, videoStream |-> FALSE, requests |-> 0,
   isScanningQR |-> FALSE, decoding |-> FALSE]
\* Nothing of an unmounted modal is left: no extraction call (calls), no
\* getUserMedia request of openCamera (requests), no stream with a live track
\* that no component holds (leaked).  getVideoDevices stops the tracks of its
\* stream in the continuation that receives it, mounted or not: no state
\* holds that stream.
NothingDetached == [calls |-> FALSE, requests |-> 0, leaked |-> FALSE]
NoExchange == [stage |-> "none"]

ModalAtMount ==
  /\ step = 1
  /\ uploadMode = "image"
  /\ selectedImage = FALSE
  /\ previewUrl = Null
  /\ selectedDocumentFiles = <<>>
  /\ formData = EmptyForm
  /\ bulkContacts = <<>>
  /\ isProcessing = FALSE
  /\ error = Null
  /\ inflight = NoCall
  /\ camera = CameraAtMount

\* What an unmounted modal leaves behind: its extraction call and its
\* getUserMedia requests stay in flight with nothing to receive the answer.
Detach ==
  [detached EXCEPT !.calls = @ \/ (env.late /\ inflight # NoCall),
                   !.requests = @ + camera.requests]

\* A modal that is hidden and keeps awaiting its call
ModalUnmountKeepsCall ==
  /\ step' = 1
  /\ uploadMode' = "image"
  /\ selectedImage' = FALSE
  /\ previewUrl' = Null
  /\ selectedDocumentFiles' = <<>>
  /\ formData' = EmptyForm
  /\ bulkContacts' = <<>>
  /\ isProcessing' = FALSE
  /\ error' = Null
  /\ inflight' = inflight
  /\ camera' = CameraAtMount
  /\ detached' = [detached EXCEPT !.requests = @ + camera.requests]

\* The modal is unmounted: its state is gone, the cleanup of the videoStream
\* effect stops the stream it holds, and a call still in flight sets state on
\* a component that no longer exists.
ModalUnmount ==
  /\ step' = 1
  /\ uploadMode' = "image"
  /\ selectedImage' = FALSE
  /\ previewUrl' = Null
  /\ selectedDocumentFiles' = <<>>
  /\ formData' = EmptyForm
  /\ bulkContacts' = <<>>
  /\ isProcessing' = FALSE
  /\ error' = Null
  /\ inflight' = NoCall
  /\ camera' = CameraAtMount
  /\ detached' = Detach

Init ==
  /\ env \in Environments
  /\ now = 0
  /\ \E m0 \in InitialMirrors :
       /\ loaded = Load(m0)
       /\ crashed = ~RenderOk(Load(m0))
       /\ contacts = Load(m0).items
       \* the mirror effect of the first commit
       /\ IF RenderOk(Load(m0)) /\ WriteFits(Load(m0).items)
          THEN mirror = JsonText("array", Stringify(Load(m0).items)) /\ lastWrite = "ok"
          ELSE mirror = m0 /\ lastWrite = IF RenderOk(Load(m0)) THEN "failed" ELSE "none"
  /\ pendingOp = NoOp
  /\ isModalOpen = FALSE
  /\ editingContact = NoContact
  /\ ModalAtMount
  /\ detached = NothingDetached
  /\ exchange = NoExchange
  /\ last = [op |-> "init", id |-> 0]

(***************************************************************************)
(* DashboardPage handlers.                                                 *)
(***************************************************************************)
Tick ==
  /\ env.clock
  /\ now < MaxTime
  /\ now' = now + 1
  /\ last' = [op |-> "tick", id |-> 0]
  /\ UNCHANGED <<env, exchange, camera, detached, storeVars, isModalOpen, editingContact, modalVars>>

\* setContacts followed by the render and the mirror effect it causes
SetContacts(cs) ==
  /\ contacts' = cs
  /\ MirrorEffect(cs)
  /\ UNCHANGED <<loaded, crashed>>

\* prev.filter(c => c.id !== id)
DeleteByName(cs, id) ==
  SelectSeq(cs, LAMBDA c : \A i \in 1..Len(cs) : cs[i].id = id => c.name # cs[i].name)
DeleteFilter(cs, id) == SelectSeq(cs, LAMBDA c : c.id # id)

\* Delete button of a rendered card; window.confirm answers `confirmed`.
handleDeleteContact(id, confirmed) ==
  /\ CardEventMayRun
  /\ id \in IdsOf(contacts)
  /\ IF confirmed
     THEN /\ SetContacts(DeleteFilter(contacts, id))
          /\ last' = [op |-> "delete", id |-> id]
     ELSE /\ UNCHANGED <<loaded, crashed, contacts, mirror, lastWrite>>
          /\ last' = [op |-> "deleteDeclined", id |-> id]
  /\ UNCHANGED <<env, exchange, camera, detached, now, pendingOp, isModalOpen, editingContact, modalVars>>

\* handleGenerateAvatarAction up to its await: contacts.find, then the call
\* of autoGenerateAvatar(contact, 'personas').
handleGenerateAvatarAction(id) ==
  /\ CardEventMayRun
  /\ pendingOp = NoOp
  /\ \E i \in 1..Len(contacts) :
       /\ contacts[i].id = id
       /\ \A j \in 1..(i - 1) : contacts[j].id # id
       /\ pendingOp' = [kind |-> "avatar", batch |-> <<>>, id |-> id,
                        url |-> autoGenerateAvatar(ImageUrlOf(contacts[i]),
                                                   contacts[i].name, "personas")]
  /\ last' = [op |-> "avatarStart", id |-> id]
  /\ UNCHANGED <<env, exchange, camera, detached, now, loaded, crashed, contacts, mirror, lastWrite,
                 isModalOpen, editingContact, modalVars>>

\* prev.map(c => c.id === contactId ? {...c, cardImageUrl, updatedAt} : c)
SetAvatar(cs, id, url, t) ==
  [i \in 1..Len(cs) |->
     IF cs[i].id = id THEN [cs[i] EXCEPT !.cardImageUrl = url, !.updatedAt = t]
     ELSE cs[i]]

\* handleGenerateAvatarAction after its await
AvatarResume ==
  /\ ~crashed
  /\ pendingOp.kind = "avatar"
  /\ IF Truthy(pendingOp.url)
     THEN SetContacts(SetAvatar(contacts, pendingOp.id, pendingOp.url, now))
     ELSE UNCHANGED <<loaded, crashed, contacts, mirror, lastWrite>>
  /\ pendingOp' = NoOp
  /\ last' = [op |-> "avatarResume", id |-> pendingOp.id]
  /\ UNCHANGED <<env, exchange, camera, detached, now, isModalOpen, editingContact, modalVars>>

\* handleAddContact, the body of the map over contactsArray
ProcessContact(c) ==
  IF ~Truthy(c.cardImageUrl)
  THEN LET avatarUrl == autoGenerateAvatar(Undefined, c.name, "gradient")
       IN  IF Truthy(avatarUrl) THEN [c EXCEPT !.cardImageUrl = avatarUrl] ELSE c
  ELSE c
ProcessContacts(batch) == [i \in 1..Len(batch) |-> ProcessContact(batch[i])]

\* handleAddContact, the body of processedContacts.forEach
UpsertAlwaysPush(cs, pc) == Append(cs, pc)
UpsertOne(cs, pc) ==
  IF \E i \in 1..Len(cs) : cs[i].id = pc.id
  THEN LET index == CHOOSE i \in 1..Len(cs) :
                      /\ cs[i].id = pc.id
                      /\ \A j \in 1..(i - 1) : cs[j].id # pc.id
       IN  [cs EXCEPT ![index] = pc]
  ELSE Append(cs, pc)

RECURSIVE Upsert(_, _)
Upsert(cs, batch) ==
  IF batch = <<>> THEN cs ELSE Upsert(UpsertOne(cs, Head(batch)), Tail(batch))

\* handleAddContact after its await: the functional setContacts, then
\* setIsModalOpen(false) and setEditingContact(null).
AddResume ==
  /\ ~crashed
  /\ pendingOp.kind = "add"
  /\ SetContacts(Upsert(contacts, pendingOp.batch))
  /\ pendingOp' = NoOp
  /\ isModalOpen' = FALSE
  /\ editingContact' = NoContact
  /\ ModalUnmount
  /\ last' = [op |-> "addResume", id |-> pendingOp.batch[1].id]
  /\ UNCHANGED <<env, exchange, now>>

\* "Add new card" button
OpenAddModal ==
  /\ UserEventMayRun
  /\ ~isModalOpen
  /\ isModalOpen' = TRUE
  /\ last' = UiEvent
  /\ UNCHANGED <<env, exchange, camera, detached, now, storeVars, editingContact, modalVars>>

\* join(', ') of the contact's list, undefined when the list is
EditFieldText(l) == IF l = NoList THEN NoString ELSE Join(l, <<",", " ">>)

\* Edit button of a rendered card: setEditingContact, setIsModalOpen(true),
\* and the modal's effect on initialContact.
handleEditContact(id) ==
  /\ CardEventMayRun
  /\ \E i \in 1..Len(contacts) :
       /\ contacts[i].id = id
       \* the effect runs when the initialContact prop changes
       /\ isModalOpen => editingContact # contacts[i]
       /\ editingContact' = contacts[i]
       /\ formData' = [name |-> contacts[i].name,
                       phone |-> EditFieldText(contacts[i].phone),
                       email |-> EditFieldText(contacts[i].email)]
       /\ previewUrl' = IF Truthy(contacts[i].cardImageUrl)
                        THEN contacts[i].cardImageUrl ELSE Null
  /\ isModalOpen' = TRUE
  /\ step' = 2
  /\ last' = [op |-> "edit", id |-> id]
  /\ UNCHANGED <<env, exchange, camera, detached, now, storeVars, uploadMode, selectedImage,
                 selectedDocumentFiles, bulkContacts, isProcessing, error, inflight>>

(***************************************************************************)
(* AddCardModal handlers.                                                  *)
(***************************************************************************)
ModalEventMayRun == UserEventMayRun /\ isModalOpen

\* handleClose: resetState, then onClose (setIsModalOpen(false),
\* setEditingContact(null)), which unmounts the modal.
CloseModal ==
  /\ isModalOpen' = FALSE
  /\ editingContact' = NoContact
  /\ ModalUnmount

handleClose ==
  /\ ModalEventMayRun
  /\ CloseModal
  /\ last' = UiEvent
  /\ UNCHANGED <<env, exchange, now, storeVars>>

\* handleFormChange on the review form (rendered at step 2 without a bulk list)
handleFormChange(field, value) ==
  /\ ModalEventMayRun
  /\ step = 2
  /\ bulkContacts = <<>>
  /\ formData[field] # value
  /\ formData' = [formData EXCEPT ![field] = value]
  /\ last' = UiEvent
  /\ UNCHANGED <<env, exchange, camera, detached, now, storeVars, isModalOpen, editingContact, step, uploadMode,
                 selectedImage, previewUrl, selectedDocumentFiles, bulkContacts,
                 isProcessing, error, inflight>>

\* formData.phone ? formData.phone.split(',').map(p => p.trim()).filter(Boolean) : undefined
FieldList(text) ==
  IF TruthyStr(text) THEN FilterBoolean(MapTrim(Split(text, {","}))) ELSE NoList

UsedIds ==
  IdsOf(contacts) \cup IdsOf(bulkContacts) \cup IdsOf(pendingOp.batch)
    \cup {editingContact.id}
\* crypto.randomUUID(): an identifier no object of the page carries
FreshIds == Ids \ UsedIds
RandomUUID(taken) == CHOOSE i \in FreshIds \ taken : \A j \in FreshIds \ taken : i <= j

\* handleSaveContact, the object literal newContact
NewContactKeepsUpdatedAt(initial, form, preview, t) ==
  [id |-> IF initial.id # 0 THEN initial.id ELSE RandomUUID({}),
   name |-> IF Truthy(form.name) THEN form.name ELSE "",
   phone |-> FieldList(form.phone),
   email |-> FieldList(form.email),
   cardImageUrl |-> IF preview # Null THEN preview ELSE Undefined,
   createdAt |-> IF initial.createdAt # -1 THEN initial.createdAt ELSE t,
   updatedAt |-> IF initial.updatedAt # -1 THEN initial.updatedAt ELSE t]
NewContact(initial, form, preview, t) ==
  [id |-> IF initial.id # 0 THEN initial.id ELSE RandomUUID({}),
   name |-> IF Truthy(form.name) THEN form.name ELSE "",
   phone |-> FieldList(form.phone),
   email |-> FieldList(form.email),
   cardImageUrl |-> IF preview # Null THEN preview ELSE Undefined,
   createdAt |-> IF initial.createdAt # -1 THEN initial.createdAt ELSE t,
   updatedAt |-> t]

\* (uploadMode === 'image' || isCameraOpen || selectedImage) ? previewUrl : undefined
CurrentPreviewUrl == IF uploadMode = "image" \/ selectedImage THEN previewUrl ELSE Null

\* whether the required-name check lets the form through
NameCheckSkipped(form) == TRUE
NamePresent(form) == Truthy(form.name)

\* Save button (rendered at step 2).  onSave is handleAddContact, which runs
\* up to its await inside this event; handleClose follows.
handleSaveContact ==
  /\ ModalEventMayRun
  /\ pendingOp = NoOp
  /\ step = 2
  /\ IF bulkContacts # <<>>
     THEN /\ Len(contacts) + Len(bulkContacts) <= MaxContacts
          /\ pendingOp' = [kind |-> "add", batch |-> ProcessContacts(bulkContacts),
                           id |-> 0, url |-> Undefined]
          /\ CloseModal
          /\ last' = [op |-> "saveBulk", id |-> bulkContacts[1].id]
     ELSE IF ~NamePresent(formData)
          THEN /\ error' = "errorNameRequired"
               /\ last' = [op |-> "saveBlocked", id |-> 0]
               /\ UNCHANGED <<pendingOp, isModalOpen, editingContact, step, uploadMode,
                              selectedImage, previewUrl, selectedDocumentFiles,
                              formData, bulkContacts, isProcessing, inflight,
                              camera, detached>>
          ELSE /\ editingContact.id \in IdsOf(contacts) \/ Len(contacts) < MaxContacts
               /\ editingContact.id # 0 \/ FreshIds # {}
               /\ LET newContact == NewContact(editingContact, formData,
                                               CurrentPreviewUrl, now)
                  IN  /\ pendingOp' = [kind |-> "add",
                                       batch |-> ProcessContacts(<<newContact>>),
                                       id |-> 0, url |-> Undefined]
                      /\ last' = [op |-> "save", id |-> newContact.id]
               /\ CloseModal
  /\ UNCHANGED <<env, exchange, now, loaded, crashed, contacts, mirror, lastWrite>>

\* closeCamera: the tracks of the held stream are stopped, videoStream is
\* null and the capture UI closed.
closeCamera == [camera EXCEPT !.isCameraOpen = FALSE, !.videoStream = FALSE]

\* Mode buttons of step 1
SetUploadMode(mode) ==
  /\ ModalEventMayRun
  /\ step = 1
  /\ <<uploadMode, error, selectedImage, selectedDocumentFiles, previewUrl, camera>>
       # <<mode, Null, FALSE, <<>>, Null, closeCamera>>
  /\ camera' = closeCamera
  /\ uploadMode' = mode
  /\ error' = Null
  /\ selectedImage' = FALSE
  /\ selectedDocumentFiles' = <<>>
  /\ previewUrl' = Null
  /\ last' = UiEvent
  /\ UNCHANGED <<env, exchange, detached, now, storeVars, isModalOpen, editingContact,
                 step, formData, bulkContacts, isProcessing, inflight>>

\* handleImageChange with a chosen file (the input is rendered at step 1 in
\* image mode while there is no preview)
handleImageChange ==
  /\ ModalEventMayRun
  /\ env.source = "image"
  /\ step = 1 /\ uploadMode = "image" /\ previewUrl = Null /\ ~selectedImage
  /\ ~camera.isCameraOpen
  /\ selectedImage' = TRUE
  /\ selectedDocumentFiles' = <<>>
  /\ error' = Null
  /\ last' = UiEvent
  /\ UNCHANGED <<env, exchange, camera, detached, now, storeVars, isModalOpen, editingContact, step, uploadMode,
                 previewUrl, formData, bulkContacts, isProcessing, inflight>>

\* reader.onloadend of handleImageChange: the data URL of the chosen file.
\* The read is pending while a file is selected and no preview is set.
readerOnLoadEnd ==
  /\ ModalEventMayRun
  /\ selectedImage /\ previewUrl = Null
  /\ previewUrl' = ScannedCard
  /\ last' = UiEvent
  /\ UNCHANGED <<env, exchange, camera, detached, now, storeVars, isModalOpen, editingContact, step, uploadMode,
                 selectedImage, selectedDocumentFiles, formData, bulkContacts,
                 isProcessing, error, inflight>>

\* Delete button of the preview
DeletePreview ==
  /\ ModalEventMayRun
  /\ step = 1 /\ uploadMode = "image" /\ previewUrl # Null
  /\ ~camera.isCameraOpen
  /\ previewUrl' = Null
  /\ selectedImage' = FALSE
  /\ last' = UiEvent
  /\ UNCHANGED <<env, exchange, camera, detached, now, storeVars, isModalOpen, editingContact, step, uploadMode,
                 selectedDocumentFiles, formData, bulkContacts, isProcessing, error,
                 inflight>>

\* Kinds of the files of a selection
FileSelections == {<<"csv">>, <<"pdf">>, <<"pdf", "pdf">>}

\* handleDocumentFileChange with at least one CSV or PDF file chosen
handleDocumentFileChange(files) ==
  /\ ModalEventMayRun
  /\ step = 1 /\ uploadMode = "file"
  /\ selectedDocumentFiles # files
  /\ selectedDocumentFiles' = files
  /\ selectedImage' = FALSE
  /\ previewUrl' = Null
  /\ error' = Null
  /\ last' = UiEvent
  /\ UNCHANGED <<env, exchange, camera, detached, now, storeVars, isModalOpen, editingContact, step, uploadMode,
                 formData, bulkContacts, isProcessing, inflight>>

\* processAndDisplayParsedData: the review form from a parsed result
ParsedFieldText(l) == IF l # NoList /\ Len(l) > 0 THEN Join(l, <<",", " ">>) ELSE <<>>
processAndDisplayParsedData(parsed) ==
  /\ formData' = [name |-> IF Truthy(parsed.name) THEN parsed.name ELSE "",
                  phone |-> ParsedFieldText(parsed.phone),
                  email |-> ParsedFieldText(parsed.email)]
  /\ step' = 2

\* A failure that sets no message
NoErrorKey(condition) == Null

\* The message key handleScanImage sets under each failure condition: the
\* two early returns, and the catch branch, which tells a rejected credential
\* by the error's message and gives every other throw errorScanFailed (a
\* reply that JSON.parse rejects, a provider error, a preview not yet read).
ScanConditions == {"offline", "nokey", "rejected", "malformed", "provider"}
ScanErrorKey(condition) ==
  CASE condition = "offline" -> "errorOffline"
    [] condition = "nokey" -> "errorApiKey"
    [] condition = "rejected" -> "errorApiKeyIssue"
    [] OTHER -> "errorScanFailed"

\* The action button of step 1 is rendered and not disabled.
ActionButtonIgnoresProcessing(mode) ==
  /\ step = 1 /\ uploadMode = mode
  /\ ~camera.isCameraOpen
  /\ mode = "image" => selectedImage \/ previewUrl # Null
  /\ mode = "file" => selectedDocumentFiles # <<>>
ActionButtonEnabled(mode) ==
  /\ step = 1 /\ uploadMode = mode
  /\ ~isProcessing /\ ~camera.isCameraOpen
  /\ mode = "image" => selectedImage \/ previewUrl # Null
  /\ mode = "file" => selectedDocumentFiles # <<>>

\* The calls still awaited once one of them has settled
Settled == IF inflight.n > 1 THEN [inflight EXCEPT !.n = @ - 1] ELSE NoCall

\* Scan button in image mode: handleScanImage up to its network call.  With a
\* file selected and its preview not yet loaded, previewUrl!.split throws
\* inside the try: the catch and the finally run in the same event.
handleScanImage(online, apiKey) ==
  /\ ModalEventMayRun
  /\ ActionButtonEnabled("image")
  /\ IF ~online
     THEN /\ error' = ScanErrorKey("offline")
          /\ last' = Failed("offline")
          /\ UNCHANGED <<isProcessing, inflight>>
     ELSE IF ~apiKey
          THEN /\ error' = ScanErrorKey("nokey")
               /\ last' = Failed("nokey")
               /\ UNCHANGED <<isProcessing, inflight>>
          ELSE IF previewUrl = Null
               THEN /\ error' = ScanErrorKey("unread")
                    /\ last' = Failed("unread")
                    /\ UNCHANGED <<isProcessing, inflight>>
               ELSE /\ isProcessing' = TRUE
                    /\ error' = Null
                    /\ inflight.n < MaxCalls
                    /\ inflight' = [kind |-> "scan", files |-> <<>>,
                                    n |-> inflight.n + 1]
                    /\ last' = UiEvent
  /\ UNCHANGED <<env, exchange, camera, detached, now, storeVars, isModalOpen, editingContact, step, uploadMode,
                 selectedImage, previewUrl, selectedDocumentFiles, formData,
                 bulkContacts>>

Answers == IF env.network = "good" THEN {TRUE} ELSE BOOLEAN
ScanFailures ==
  IF env.network = "good" THEN {} ELSE {"rejected", "malformed", "provider"}

\* handleScanImage after its network call: the reply parsed and shown, or the
\* catch branch; finally setIsProcessing(false).
ScanDone ==
  /\ UserEventMayRun
  /\ inflight.kind = "scan"
  /\ \/ /\ \E parsed \in OcrResults : processAndDisplayParsedData(parsed)
        /\ last' = Completion
        /\ UNCHANGED error
     \/ \E condition \in ScanFailures :
          /\ error' = ScanErrorKey(condition)
          /\ last' = Failed(condition)
          /\ UNCHANGED <<formData, step>>
  /\ isProcessing' = FALSE
  /\ inflight' = Settled
  /\ UNCHANGED <<env, exchange, camera, detached, now, storeVars, isModalOpen, editingContact, uploadMode,
                 selectedImage, previewUrl, selectedDocumentFiles, bulkContacts>>

(***************************************************************************)
(* handleParseDocument                                                     *)
(***************************************************************************)
\* A cell split at commas only
CellListAtCommas(cell) == FilterBoolean(MapTrim(Split(cell, {","})))
\* split(/[;,]/).map(trim).filter(Boolean) of a CSV cell
CellList(cell) == FilterBoolean(MapTrim(Split(cell, {";", ","})))

\* What one file contributes to allExtractedContacts, before ids and
\* timestamps: a CSV row with a name; a PDF reply with a name, its phone and
\* email lists spread into the contact as the model returned them.
RowContact(row) == [name |-> row.name, phone |-> CellList(row.phone),
                    email |-> CellList(row.email)]
RowHasName(row) == Truthy(row.name)
CsvContacts(rows) ==
  LET kept == SelectSeq(rows, RowHasName)
  IN  [i \in 1..Len(kept) |-> RowContact(kept[i])]
PdfContacts(data) ==
  IF Truthy(data.name)
  THEN << [name |-> data.name, phone |-> data.phone, email |-> data.email] >>
  ELSE <<>>

\* What reading one file can come to.
CsvOutcomes ==
  (IF env.network = "good" THEN {} ELSE {[status |-> "throws", found |-> <<>>]})
    \cup {[status |-> "ok", found |-> CsvContacts(rows)] :
            rows \in UNION {[1..n -> CsvRows] : n \in 0..MaxBulk}}
PdfOutcomes ==
  (IF env.network = "good" THEN {}
   ELSE {[status |-> "throws", found |-> <<>>], [status |-> "nokey", found |-> <<>>]})
    \cup {[status |-> "ok", found |-> <<>>]}
    \cup {[status |-> "ok", found |-> PdfContacts(d)] : d \in OcrResults}
FileOutcomes(kind) == IF kind = "csv" THEN CsvOutcomes ELSE PdfOutcomes

RECURSIVE OutcomeSeqs(_)
OutcomeSeqs(files) ==
  IF files = <<>> THEN {<<>>}
  ELSE {<<o>> \o rest : o \in FileOutcomes(Head(files)), rest \in OutcomeSeqs(Tail(files))}

RECURSIVE Flatten(_)
Flatten(ll) == IF ll = <<>> THEN <<>> ELSE Head(ll) \o Flatten(Tail(ll))

\* The loop over the files stops at the first file that throws or returns.
FirstBad(outcomes) ==
  IF \E i \in 1..Len(outcomes) : outcomes[i].status # "ok"
  THEN CHOOSE i \in 1..Len(outcomes) :
         /\ outcomes[i].status # "ok"
         /\ \A j \in 1..(i - 1) : outcomes[j].status = "ok"
  ELSE 0

RECURSIVE WithIds(_, _, _)
\* id: crypto.randomUUID(), createdAt and updatedAt: new Date()
WithIds(found, taken, t) ==
  IF found = <<>> THEN <<>>
  ELSE LET id == RandomUUID(taken)
       IN  << [id |-> id, name |-> Head(found).name, phone |-> Head(found).phone,
               email |-> Head(found).email, cardImageUrl |-> Undefined,
               createdAt |-> t, updatedAt |-> t] >>
             \o WithIds(Tail(found), taken \cup {id}, t)

\* The message key handleParseDocument sets: offline before the loop, a PDF
\* without a credential, a file whose processing throws, and no contact found
\* in any file.
ParseErrorKey(condition) ==
  CASE condition = "offline" -> "errorOffline"
    [] condition = "nokey" -> "errorApiKey"
    [] condition = "throws" -> "errorDocProcess"
    [] OTHER -> "errorNoDataFound"

\* Parse button in file mode: handleParseDocument up to its first await
handleParseDocument(online) ==
  /\ ModalEventMayRun
  /\ ActionButtonEnabled("file")
  /\ IF ~online
     THEN /\ error' = ParseErrorKey("offline")
          /\ last' = Failed("offline")
          /\ UNCHANGED <<isProcessing, inflight>>
     ELSE /\ isProcessing' = TRUE
          /\ error' = Null
          /\ inflight.n < MaxCalls
          /\ inflight' = [kind |-> "parse", files |-> selectedDocumentFiles,
                          n |-> inflight.n + 1]
          /\ last' = UiEvent
  /\ UNCHANGED <<env, exchange, camera, detached, now, storeVars, isModalOpen, editingContact, step, uploadMode,
                 selectedImage, previewUrl, selectedDocumentFiles, formData,
                 bulkContacts>>

\* handleParseDocument from its first await to its end.
ParseDone ==
  /\ UserEventMayRun
  /\ inflight.kind = "parse"
  /\ \E outcomes \in OutcomeSeqs(inflight.files) :
     LET bad == FirstBad(outcomes)
         found == Flatten([i \in 1..Len(outcomes) |-> outcomes[i].found])
     IN  IF bad # 0
         THEN /\ error' = ParseErrorKey(outcomes[bad].status)
              /\ last' = Failed(outcomes[bad].status)
              /\ UNCHANGED <<formData, step, bulkContacts>>
         ELSE /\ Len(found) <= MaxBulk
              /\ Len(found) <= Cardinality(FreshIds)
              /\ IF Len(found) = 1 /\ \A i \in 1..Len(inflight.files) :
                                        inflight.files[i] # "csv"
                 THEN /\ processAndDisplayParsedData(WithIds(found, {}, now)[1])
                      /\ last' = Completion
                      /\ UNCHANGED <<error, bulkContacts>>
                 ELSE IF Len(found) > 0
                      THEN /\ bulkContacts' = WithIds(found, {}, now)
                           /\ step' = 2
                           /\ last' = BulkCompletion
                           /\ UNCHANGED <<error, formData>>
                      ELSE /\ error' = ParseErrorKey("nodata")
                           /\ last' = Failed("nodata")
                           /\ UNCHANGED <<formData, step, bulkContacts>>
  /\ isProcessing' = FALSE
  /\ inflight' = Settled
  /\ UNCHANGED <<env, exchange, camera, detached, now, storeVars, isModalOpen, editingContact, uploadMode,
                 selectedImage, previewUrl, selectedDocumentFiles>>

\* Remove button of a row of the bulk review
removeBulkContact(index) ==
  /\ ModalEventMayRun
  /\ step = 2
  /\ index \in 1..Len(bulkContacts)
  /\ bulkContacts' = [i \in 1..(Len(bulkContacts) - 1) |->
                        IF i < index THEN bulkContacts[i] ELSE bulkContacts[i + 1]]
  /\ last' = UiEvent
  /\ UNCHANGED <<env, exchange, camera, detached, now, storeVars, isModalOpen, editingContact, step, uploadMode,
                 selectedImage, previewUrl, selectedDocumentFiles, formData,
                 isProcessing, error, inflight>>

\* "Edit / rescan" button of step 2 (rendered without initialContact)
Rescan ==
  /\ ModalEventMayRun
  /\ step = 2
  /\ editingContact = NoContact
  /\ error' = Null
  /\ step' = 1
  /\ last' = UiEvent
  /\ UNCHANGED <<env, exchange, camera, detached, now, storeVars, isModalOpen, editingContact, uploadMode,
                 selectedImage, previewUrl, selectedDocumentFiles, formData,
                 bulkContacts, isProcessing, inflight>>

(***************************************************************************)
(* The capture UI: openCamera, capturePhoto, startQrScanner.               *)
(***************************************************************************)
\* "Use camera" and "Retake" buttons: openCamera up to its await.  The
\* buttons are rendered at step 1 in image mode while the capture UI is
\* closed; neither is disabled while an extraction is in flight.
openCamera ==
  /\ ModalEventMayRun
  /\ env.media
  /\ step = 1 /\ uploadMode = "image" /\ ~camera.isCameraOpen
  /\ camera.requests + detached.requests < MaxRequests
  /\ error' = Null
  /\ selectedImage' = FALSE
  /\ previewUrl' = Null
  /\ camera' = [camera EXCEPT !.requests = @ + 1]
  /\ last' = UiEvent
  /\ UNCHANGED <<env, exchange, detached, now, storeVars, isModalOpen, editingContact,
                 step, uploadMode, selectedDocumentFiles, formData, bulkContacts,
                 isProcessing, inflight>>

\* openCamera after getUserMedia settles: setVideoStream(stream) and
\* setIsCameraOpen(true), the stream held before being stopped by the cleanup
\* of the videoStream effect; or, both attempts refused, setIsCameraOpen(false).
MediaAnswered(granted) ==
  /\ UserEventMayRun
  /\ isModalOpen
  /\ camera.requests > 0
  /\ camera' = IF granted
               THEN [camera EXCEPT !.requests = @ - 1, !.videoStream = TRUE,
                                   !.isCameraOpen = TRUE]
               ELSE [camera EXCEPT !.requests = @ - 1, !.isCameraOpen = FALSE]
  /\ last' = UiEvent
  /\ UNCHANGED <<env, exchange, detached, now, storeVars, isModalOpen, editingContact,
                 modalVars>>

\* The camera select of the open capture UI: closeCamera, then openCamera
\* from a timer.
handleCameraChange ==
  /\ ModalEventMayRun
  /\ step = 1 /\ uploadMode = "image" /\ camera.isCameraOpen
  /\ camera.requests + detached.requests < MaxRequests
  /\ camera' = [closeCamera EXCEPT !.requests = @ + 1]
  /\ error' = Null
  /\ selectedImage' = FALSE
  /\ previewUrl' = Null
  /\ last' = UiEvent
  /\ UNCHANGED <<env, exchange, detached, now, storeVars, isModalOpen, editingContact,
                 step, uploadMode, selectedDocumentFiles, formData, bulkContacts,
                 isProcessing, inflight>>

\* Cancel button of the capture UI
CloseCameraButton ==
  /\ ModalEventMayRun
  /\ step = 1 /\ uploadMode = "image" /\ camera.isCameraOpen
  /\ camera' = closeCamera
  /\ last' = UiEvent
  /\ UNCHANGED <<env, exchange, detached, now, storeVars, isModalOpen, editingContact,
                 modalVars>>

\* Capture button with the video playing: the frame becomes the preview and
\* the selected image, then closeCamera.
capturePhoto ==
  /\ ModalEventMayRun
  /\ step = 1 /\ uploadMode = "image" /\ camera.isCameraOpen /\ camera.videoStream
  /\ previewUrl' = ScannedCard
  /\ selectedImage' = TRUE
  /\ camera' = closeCamera
  /\ last' = UiEvent
  /\ UNCHANGED <<env, exchange, detached, now, storeVars, isModalOpen, editingContact,
                 step, uploadMode, selectedDocumentFiles, formData, bulkContacts,
                 isProcessing, error, inflight>>

\* QR button of the capture UI: stop showing the scan, or startQrScanner up
\* to its await.
startQrScanner ==
  /\ ModalEventMayRun
  /\ step = 1 /\ uploadMode = "image" /\ camera.isCameraOpen
  /\ camera' = IF camera.isScanningQR
               THEN [camera EXCEPT !.isScanningQR = FALSE]
               ELSE [camera EXCEPT !.isScanningQR = TRUE, !.decoding = TRUE]
  /\ last' = UiEvent
  /\ UNCHANGED <<env, exchange, detached, now, storeVars, isModalOpen, editingContact,
                 modalVars>>

\* What a decoded code comes to: a vCard with or without a name, or other text.
QrResults == [name : {""} \cup Names, phone : {NoList}, email : {NoList}]

\* startQrScanner after decodeFromVideoElement settles: a code read from the
\* playing video is shown for review and the camera closed; a rejected decode
\* is logged.
QrDone ==
  /\ UserEventMayRun
  /\ isModalOpen
  /\ camera.decoding
  /\ \/ /\ camera.isCameraOpen /\ camera.videoStream
        /\ \E parsed \in QrResults : processAndDisplayParsedData(parsed)
        /\ camera' = [closeCamera EXCEPT !.isScanningQR = FALSE, !.decoding = FALSE]
     \/ /\ camera' = [camera EXCEPT !.decoding = FALSE]
        /\ UNCHANGED <<formData, step>>
  /\ last' = UiEvent
  /\ UNCHANGED <<env, exchange, detached, now, storeVars, isModalOpen, editingContact,
                 uploadMode, selectedImage, previewUrl, selectedDocumentFiles,
                 bulkContacts, isProcessing, error, inflight>>

(***************************************************************************)
(* What completes after its modal is unmounted.                            *)
(***************************************************************************)
\* openCamera of an unmounted modal after getUserMedia settles: setVideoStream
\* and setIsCameraOpen reach no component, and nothing stops a granted stream.
DetachedRequestAnswered(granted) ==
  /\ UserEventMayRun
  /\ detached.requests > 0
  /\ detached' = [detached EXCEPT !.requests = @ - 1, !.leaked = @ \/ granted]
  /\ last' = UiEvent
  /\ UNCHANGED <<env, exchange, camera, now, storeVars, isModalOpen, editingContact,
                 modalVars>>

\* handleScanImage or handleParseDocument of an unmounted modal after its
\* await: every setter it calls reaches no component.
DetachedCallDone ==
  /\ UserEventMayRun
  /\ detached.calls
  /\ detached' = [detached EXCEPT !.calls = FALSE]
  /\ last' = LateCompletion
  /\ UNCHANGED <<env, exchange, camera, now, storeVars, isModalOpen, editingContact,
                 modalVars>>

Next ==
  \/ Tick
  \/ \E id \in Ids, confirmed \in BOOLEAN : handleDeleteContact(id, confirmed)
  \/ \E id \in Ids : handleGenerateAvatarAction(id)
  \/ AvatarResume
  \/ AddResume
  \/ OpenAddModal
  \/ \E id \in Ids : handleEditContact(id)
  \/ handleClose
  \/ \E n \in {""} \cup Names : handleFormChange("name", n)
  \/ \E field \in {"phone", "email"} :
       \E v \in TypedStrings(field) : handleFormChange(field, v)
  \/ handleSaveContact
  \/ SetUploadMode(IF env.source = "file" THEN "file" ELSE "image")
  \/ handleImageChange
  \/ readerOnLoadEnd
  \/ DeletePreview
  \/ \E files \in FileSelections : handleDocumentFileChange(files)
  \/ \E online, apiKey \in Answers : handleScanImage(online, apiKey)
  \/ ScanDone
  \/ \E online \in Answers : handleParseDocument(online)
  \/ ParseDone
  \/ \E index \in 1..MaxBulk : removeBulkContact(index)
  \/ Rescan
  \/ openCamera
  \/ \E granted \in BOOLEAN : MediaAnswered(granted)
  \/ handleCameraChange
  \/ CloseCameraButton
  \/ capturePhoto
  \/ startQrScanner
  \/ QrDone
  \/ \E granted \in BOOLEAN : DetachedRequestAnswered(granted)
  \/ DetachedCallDone

Spec == Init /\ [][Next]_vars

(***************************************************************************)
(* Properties of the Contact Store.                                        *)
(***************************************************************************)
\* the list cs without its element at position i
RemoveAt(cs, i) ==
  [j \in 1..(Len(cs) - 1) |-> IF j < i THEN cs[j] ELSE cs[j + 1]]
\* a phone or email list holds no empty string
NoEmptyEntries(l) == l = NoList \/ \A i \in 1..Len(l) : l[i] # <<>>
\* batches handed to handleAddContact, some of them repeating an id
ProbeBatches ==
  UNION {[1..n -> {[Seed EXCEPT !.id = i] : i \in Ids}] : n \in 1..MaxBulk}
Resumes == {"addResume", "avatarResume"}

\* C1: whenever the latest write of the mirror succeeded, a reload (the
\* useState initializer applied to the 'contacts' entry) yields exactly the
\* in-memory collection: same records, same fields, same order.
C1_ReloadYieldsCollection ==
  (~crashed /\ lastWrite = "ok") =>
     /\ Load(mirror).type = "array"
     /\ Load(mirror).items = contacts
\* C1 witness: after an add and a delete, all written, the added record is the
\* one that is left.
C1_Witness ==
  /\ last.op = "delete" /\ lastWrite = "ok"
  /\ Len(contacts) = 1 /\ contacts[1].id # last.id
  /\ Load(mirror).items = contacts

\* C2: a confirmed delete by id removes exactly the record with that id; the
\* other records keep their values and their order.
C2_DeleteRemovesExactlyOne ==
  [][last'.op = "delete" =>
       \E i \in 1..Len(contacts) :
         /\ contacts[i].id = last'.id
         /\ contacts' = RemoveAt(contacts, i)]_vars
\* C2 witness: a delete has run and another record is left.
C2_Witness ==
  /\ last.op = "delete"
  /\ contacts # <<>>
  /\ last.id \notin IdsOf(contacts)

\* C3: store mutations are never interleaved: while handleAddContact or
\* handleGenerateAvatarAction is suspended at its await, no handler of a user
\* event runs (so no delete is issued that the resume could undo); the next
\* change of the store is the suspended handler's own continuation.
C3_NoInterleaving ==
  [][pendingOp # NoOp =>
       \/ last'.op = "tick" /\ UNCHANGED <<contacts, mirror, pendingOp>>
       \/ /\ last'.op \in Resumes
          /\ pendingOp' = NoOp
          /\ IdsOf(contacts') \subseteq IdsOf(contacts) \cup IdsOf(pendingOp.batch)]_vars
\* C3 witness: the save of an edit is suspended on a contact of the store.
C3_Witness ==
  /\ pendingOp.kind = "add"
  /\ last.op = "save"
  /\ pendingOp.batch[1].id \in IdsOf(contacts)

\* C4: the ids of the collection are pairwise distinct, and stay so when
\* handleAddContact applies any batch, one that repeats an id included.
C4_IdsUnique ==
  /\ UniqueIds(contacts)
  /\ \A b \in ProbeBatches : UniqueIds(Upsert(contacts, b))
\* C4 witness: the save of an edit has replaced the first of two records.
C4_Witness ==
  /\ last.op = "addResume"
  /\ Len(contacts) = 2
  /\ contacts[1].id = last.id
  /\ contacts[1].updatedAt > contacts[1].createdAt

\* C5: every contact of a started dashboard, and every contact on its way
\* into the store, has a non-empty name; a save with the name missing is
\* blocked with the inline error and hands nothing to the store.
C5_NamesNonEmpty ==
  ~crashed =>
    /\ \A i \in 1..Len(contacts) : Truthy(contacts[i].name)
    /\ \A i \in 1..Len(pendingOp.batch) : Truthy(pendingOp.batch[i].name)
    /\ \A i \in 1..Len(bulkContacts) : Truthy(bulkContacts[i].name)
    /\ last.op = "saveBlocked" =>
         error = "errorNameRequired" /\ isModalOpen /\ pendingOp = NoOp
\* C5 witness: a save of a form without a name has been blocked.
C5_Witness ==
  /\ last.op = "saveBlocked"
  /\ ~Truthy(formData.name)
  /\ error = "errorNameRequired"

\* C6: no stored contact has an empty string among its phone or email
\* entries, whatever path stored it.
C6_NoEmptyPhoneOrEmail ==
  \A i \in 1..Len(contacts) :
    NoEmptyEntries(contacts[i].phone) /\ NoEmptyEntries(contacts[i].email)

\* C7: no step changes the id or createdAt of a contact that stays in the
\* store; the save of an edit keeps the edited contact's id and createdAt and
\* sets updatedAt to the time of the save, and the store takes that record.
C7_IdAndCreatedAtKept ==
  [][/\ \A i \in 1..Len(contacts), j \in 1..Len(contacts') :
          contacts[i].id = contacts'[j].id =>
            contacts'[j].createdAt = contacts[i].createdAt
     /\ Len(contacts') >= Len(contacts) =>
          \A i \in 1..Len(contacts) : contacts'[i].id = contacts[i].id
     /\ (last'.op = "save" /\ editingContact # NoContact) =>
          /\ pendingOp'.batch[1].id = editingContact.id
          /\ pendingOp'.batch[1].createdAt = editingContact.createdAt
          /\ pendingOp'.batch[1].updatedAt = now
     /\ last'.op = "addResume" =>
          \A k \in 1..Len(pendingOp.batch) :
            \E j \in 1..Len(contacts') : contacts'[j] = pendingOp.batch[k]]_vars
\* C7 witness: the save of an edit made after the creation has been applied.
C7_Witness ==
  /\ last.op = "addResume"
  /\ \E i \in 1..Len(contacts) :
       /\ contacts[i].id = last.id
       /\ contacts[i].createdAt = 0
       /\ contacts[i].updatedAt = MaxTime
       /\ contacts[i].cardImageUrl = GradientAvatar

\* C8: the avatar-generation action changes only the contact it is asked
\* for, and that one only if it has no cardImageUrl.
C8_AvatarOnlyWithoutCardImage ==
  [][last'.op = "avatarResume" =>
       /\ Len(contacts') = Len(contacts)
       /\ \A i \in 1..Len(contacts) :
            (contacts[i].id # pendingOp.id \/ Truthy(contacts[i].cardImageUrl))
              => contacts'[i] = contacts[i]]_vars

\* C9: whatever the 'contacts' entry holds, the initial load yields a
\* sequence of records that the dashboard renders.
C9_LoadAlwaysStarts ==
  /\ loaded.type = "array"
  /\ ~crashed

\* C10: a step that changes the collection attempts the write: the mirror
\* takes the new list when setItem accepts it; when setItem throws the mirror
\* keeps its text, the change of the collection stays, no error is shown and
\* the page keeps running.  An earlier failure does not stop later writes.
C10_WriteFailureContained ==
  [][contacts' # contacts =>
       /\ IF WriteFits(contacts')
          THEN mirror' = JsonText("array", Stringify(contacts')) /\ lastWrite' = "ok"
          ELSE mirror' = mirror /\ lastWrite' = "failed"
       /\ error' \in {error, Null}
       /\ ~crashed']_vars
\* C10 witness: under a quota the list had outgrown the storage, and the
\* delete that made it fit again has been written.
C10_Witness ==
  /\ env.storage = "quota"
  /\ last.op = "delete"
  /\ Len(contacts) = QuotaLen
  /\ lastWrite = "ok"
  /\ Load(mirror).items = contacts

\* C11: a contact is committed only from the review step and never while an
\* extraction started in the same modal is still in flight: every save step
\* starts at step 2 with isProcessing false and no call outstanding.
C11_SaveOnlyAfterExtraction ==
  [][last'.op \in {"save", "saveBulk"} =>
       step = 2 /\ ~isProcessing /\ inflight = NoCall]_vars

\* C12: at most one extraction call of a modal is in flight, and a call
\* starts only while isProcessing is false and none is outstanding.
C12_OneExtractionInFlight ==
  [][/\ inflight'.n <= 1
     /\ inflight'.n > inflight.n => ~isProcessing /\ inflight = NoCall]_vars
\* C12 witness: a scan is being awaited with the preview still shown and the
\* camera closed, so only isProcessing keeps the action button disabled.
C12_Witness ==
  /\ isModalOpen /\ step = 1 /\ uploadMode = "image"
  /\ isProcessing /\ inflight.n = 1 /\ inflight.kind = "scan"
  /\ previewUrl # Null /\ ~camera.isCameraOpen

\* The store's steps: the write of a save, a confirmed delete, the write of
\* a generated avatar.
StoreSteps == {"addResume", "delete", "avatarResume"}

\* C13: the completion of an extraction or parse, arriving in the mounted
\* modal or after it was closed, changes neither the collection nor its
\* mirror; these change only in the store's save, delete and avatar steps;
\* and while the modal stays closed nothing writes to its state, so a late
\* result is discarded.
C13_CompletionLeavesStore ==
  [][/\ last'.op \in {"completion", "failed", "lateCompletion"} =>
          UNCHANGED <<contacts, mirror>>
     /\ (contacts' # contacts \/ mirror' # mirror) => last'.op \in StoreSteps
     /\ (~isModalOpen /\ ~isModalOpen') => UNCHANGED <<modalVars, camera>>
     /\ last'.op = "lateCompletion" =>
          UNCHANGED <<storeVars, isModalOpen, editingContact, modalVars, camera>>]_vars
\* C13 witness: the answer to a call of a closed modal has arrived while a
\* later modal, with a new image chosen, is open over a non-empty collection.
C13_Witness ==
  /\ last.op = "lateCompletion"
  /\ isModalOpen /\ selectedImage
  /\ contacts # <<>>

\* C14: every camera stream that was acquired is released: no stream with a
\* live track outlives its modal, and while the modal is unmounted or its
\* capture UI closed the modal holds no stream.
C14_StreamsReleased ==
  /\ ~detached.leaked
  /\ (~isModalOpen \/ ~camera.isCameraOpen) => ~camera.videoStream

\* The step is a failure of handleScanImage under one of its five conditions.
ScanFailureStep ==
  /\ last'.op = "failed"
  /\ inflight.kind = "scan" \/ (inflight = NoCall /\ uploadMode = "image")
  /\ last'.cond \in ScanConditions

\* C15: each of the five failure conditions of handleScanImage has a message
\* key of its own: the key shown by a failure belongs to no other condition.
C15_DistinctMessageKeys ==
  [][ScanFailureStep =>
       \A other \in ScanConditions \ {last'.cond} : ScanErrorKey(other) # error']_vars

\* The input of the current mode is selected, at step 1 with the camera closed.
InputReady ==
  /\ step = 1 /\ ~camera.isCameraOpen
  /\ uploadMode = "image" => selectedImage \/ previewUrl # Null
  /\ uploadMode = "file" => selectedDocumentFiles # <<>>

pageVars == <<env, now, storeVars, isModalOpen, editingContact, modalVars, camera,
              detached, last>>
\* The page as loaded over an empty storage, with no modal open
PageAtRest ==
  /\ env = BaseEnv
  /\ now = 0
  /\ loaded = Load(Absent)
  /\ crashed = FALSE
  /\ contacts = <<>>
  /\ mirror = JsonText("array", Stringify(<<>>))
  /\ lastWrite = "ok"
  /\ pendingOp = NoOp
  /\ isModalOpen = FALSE
  /\ editingContact = NoContact
  /\ ModalAtMount
  /\ detached = NothingDetached
  /\ last = [op |-> "init", id |-> 0]

\* The three backquotes of a Markdown code fence
Fence == "fence"
WordChars == {"j", "1", "null"}
ReplyPieces == {Fence, "{", "}", "N"} \cup WordChars \cup {" ", "\n"}
Replies == UNION {[1..n -> ReplyPieces] : n \in 0..MaxText}

RECURSIVE DropWhile(_, _)
DropWhile(s, class) ==
  IF s # <<>> /\ Head(s) \in class THEN DropWhile(Tail(s), class) ELSE s

\* .replace(/^FENCEjson/, '').replace(/FENCE$/, ''), FENCE three backquotes
StripJsonFence(text) ==
  LET t == Trim(text)
      a == IF Len(t) >= 2 /\ t[1] = Fence /\ t[2] = "j" THEN SubSeq(t, 3, Len(t)) ELSE t
  IN  IF a # <<>> /\ a[Len(a)] = Fence THEN SubSeq(a, 1, Len(a) - 1) ELSE a

\* response.text().trim(), then /^FENCE(\w*)?\s*\n?(.*?)\n?\s*FENCE$/s: between
\* an opening and a closing fence the greedy \w* and \s* take the tag and the
\* white space after it, the lazy group ends where only white space precedes
\* the closing fence; a non-empty group, trimmed, replaces the text.
StripFence(text) ==
  LET t == Trim(text)
      fenced == Len(t) >= 2 /\ t[1] = Fence /\ t[Len(t)] = Fence
      inner == SubSeq(t, 2, Len(t) - 1)
      group == TrimEnd(DropWhile(DropWhile(inner, WordChars), Whitespace))
  IN  IF fenced /\ group # <<>> THEN Trim(group) ELSE t

\* JSON.parse: a number, null, an object without members or with a name
\* member; anything else throws a SyntaxError.
SyntaxError == [type |-> "SyntaxError"]
JsonParse(text) ==
  LET u == Trim(text)
      members == Trim(SubSeq(u, 2, Len(u) - 1))
  IN  IF u # <<>> /\ \A i \in 1..Len(u) : u[i] = "1" THEN [type |-> "number"]
      ELSE IF u = <<"null">> THEN [type |-> "null"]
      ELSE IF Len(u) >= 2 /\ u[1] = "{" /\ u[Len(u)] = "}"
           THEN IF members = <<>> THEN [type |-> "object", name |-> Undefined]
                ELSE IF members = <<"N">> THEN [type |-> "object", name |-> "A"]
                     ELSE SyntaxError
           ELSE SyntaxError

\* What handleScanImage leaves of a reply text: JSON.parse and
\* processAndDisplayParsedData (which reads .name, .phone, ... of the value
\* and throws on null), or the catch branch.
ScanOutcome(jsonStr) ==
  LET parsed == JsonParse(jsonStr)
  IN  IF parsed.type \in {"SyntaxError", "null"}
      THEN [step |-> 1, error |-> ScanErrorKey("malformed"), name |-> Undefined]
      ELSE [step |-> 2, error |-> Null,
            name |-> IF parsed.type = "object" /\ Truthy(parsed.name)
                     THEN parsed.name ELSE ""]

\* A reply inside a Markdown code fence: the opening fence with or without
\* a language tag ends its line; the closing fence is on a line of its own
\* or follows the text.
Wrap(reply, tag, ownLine) ==
  <<Fence>> \o tag \o <<"\n">> \o reply
    \o (IF ownLine THEN <<"\n">> ELSE <<>>) \o <<Fence>>

FenceInit ==
  /\ PageAtRest
  /\ \E reply \in Replies, tag \in {<<>>, <<"j">>}, ownLine \in BOOLEAN :
       exchange = [stage |-> "reply", plain |-> reply,
                   fenced |-> Wrap(reply, tag, ownLine)]
\* The fence is stripped from both replies
FenceStripped ==
  /\ exchange.stage = "reply"
  /\ exchange' = [stage |-> "stripped", reply |-> exchange.plain,
                  plain |-> StripFence(exchange.plain),
                  fenced |-> StripFence(exchange.fenced)]
  /\ UNCHANGED pageVars
\* Both texts are parsed and shown
FenceParsed ==
  /\ exchange.stage = "stripped"
  /\ exchange' = [stage |-> "shown", reply |-> exchange.reply,
                  text |-> exchange.plain,
                  plain |-> ScanOutcome(exchange.plain),
                  fenced |-> ScanOutcome(exchange.fenced)]
  /\ UNCHANGED pageVars
FenceNext == FenceStripped \/ FenceParsed
FenceSpec == FenceInit /\ [][FenceNext]_vars

\* The reply holds no fence.
Unfenced(reply) == \A i \in 1..Len(reply) : reply[i] # Fence

\* C17: a reply wrapped in a Markdown code fence comes to the same shown
\* result as the same reply without a fence, and a text that JSON.parse
\* rejects after the stripping ends in an error message with the modal left
\* at step 1.
C17_FenceStrippedBeforeParse ==
  exchange.stage = "shown" =>
    /\ Unfenced(exchange.reply) => exchange.fenced = exchange.plain
    /\ JsonParse(exchange.text) = SyntaxError =>
         exchange.plain.step = 1 /\ exchange.plain.error # Null
\* C17 witness: a fenced object with a name member has been shown for review,
\* as its unfenced text is.
C17_Witness ==
  /\ exchange.stage = "shown"
  /\ Unfenced(exchange.reply)
  /\ exchange.fenced = [step |-> 2, error |-> Null, name |-> "A"]
  /\ exchange.plain = exchange.fenced

(***************************************************************************)
(* vCard export (generateVCard) and import (parseVCard).  Texts are        *)
(* strings of characters.                                                  *)
(***************************************************************************)
\* Characters of the field values of a contact
ValueChars == {"A", " ", "\n", ";", ","}
Values == UNION {[1..n -> ValueChars] : n \in 1..MaxValue}
ValueLists == {NoList} \cup UNION {[1..n -> Values \cup {<<>>}] : n \in 0..MaxEntries}

\* A contact with a name and nothing else
NamedOnly ==
  [name |-> <<"A">>, company |-> NoString, title |-> NoString, phone |-> NoList,
   email |-> NoList, address |-> NoString]
\* The contacts exported: one field or list varies at a time.
ExportedContacts ==
  {[NamedOnly EXCEPT !.name = v] : v \in Values}
    \cup {[NamedOnly EXCEPT !.company = v] : v \in Values \cup {<<>>}}
    \cup {[NamedOnly EXCEPT !.title = v] : v \in Values \cup {<<>>}}
    \cup {[NamedOnly EXCEPT !.address = v] : v \in Values \cup {<<>>}}
    \cup {[NamedOnly EXCEPT !.phone = l] : l \in ValueLists}
    \cup {[NamedOnly EXCEPT !.email = l] : l \in ValueLists}

StartsWith(s, prefix) ==
  Len(s) >= Len(prefix) /\ SubSeq(s, 1, Len(prefix)) = prefix
\* line.substring(line.indexOf(':') + 1): the whole line where it has no colon
AfterColon(line) ==
  IF \E i \in 1..Len(line) : line[i] = ":"
  THEN SubSeq(line, 1 + (CHOOSE i \in 1..Len(line) :
                           line[i] = ":" /\ \A j \in 1..(i - 1) : line[j] # ":"),
              Len(line))
  ELSE line
\* .replace(/;/g, ' ')
SemicolonsToSpaces(s) == [i \in 1..Len(s) |-> IF s[i] = ";" THEN " " ELSE s[i]]
\* vcard.split(/\r?\n/): the text between consecutive line feeds, without
\* the carriage return that precedes a line feed
SplitLines(text) ==
  LET feeds == {i \in 1..Len(text) : text[i] = "\n"}
      feedAt(k) == CHOOSE i \in feeds : Cardinality({j \in feeds : j < i}) = k - 1
      from(k) == IF k = 1 THEN 1 ELSE feedAt(k - 1) + 1
      upto(k) == IF k > Cardinality(feeds) THEN Len(text)
                 ELSE IF feedAt(k) > from(k) /\ text[feedAt(k) - 1] = "\r"
                      THEN feedAt(k) - 2 ELSE feedAt(k) - 1
  IN  [k \in 1..(Cardinality(feeds) + 1) |-> SubSeq(text, from(k), upto(k))]

\* The N line of a name: the last word, then the words before it
NameLine(name) ==
  LET nameParts == Split(name, {" "})
      lastName == IF Len(nameParts) > 1 THEN nameParts[Len(nameParts)] ELSE <<>>
      firstName == IF Len(nameParts) > 1
                   THEN Join(SubSeq(nameParts, 1, Len(nameParts) - 1), <<" ">>)
                   ELSE name
  IN  <<"N", ":">> \o lastName \o <<";">> \o firstName \o <<";", ";", ";">>

\* generateVCard for a contact without website, notes and image
generateVCard(contact) ==
  LET lines ==
        << <<<<"B", "E", "G", "I", "N", ":", "V", "C", "A", "R", "D">>, <<"V", "E", "R", "S", "I", "O", "N", ":", "3", ".", "0">>>>,
           IF TruthyStr(contact.name)
           THEN <<NameLine(contact.name), <<"F", "N", ":">> \o contact.name>> ELSE <<>>,
           IF TruthyStr(contact.company) THEN <<<<"O", "R", "G", ":">> \o contact.company>> ELSE <<>>,
           IF TruthyStr(contact.title) THEN <<<<"T", "I", "T", "L", "E", ":">> \o contact.title>> ELSE <<>>,
           IF contact.phone # NoList
           THEN [i \in 1..Len(contact.phone) |->
                   (IF i = 1 THEN <<"T", "E", "L", ";", "T", "Y", "P", "E", "=", "W", "O", "R", "K", ":">> ELSE <<"T", "E", "L", ";", "T", "Y", "P", "E", "=", "C", "E", "L", "L", ":">>) \o contact.phone[i]]
           ELSE <<>>,
           IF contact.email # NoList
           THEN [i \in 1..Len(contact.email) |-> <<"E", "M", "A", "I", "L", ";", "T", "Y", "P", "E", "=", "I", "N", "T", "E", "R", "N", "E", "T", ":">> \o contact.email[i]]
           ELSE <<>>,
           IF TruthyStr(contact.address)
           THEN <<<<"A", "D", "R", ";", "T", "Y", "P", "E", "=", "W", "O", "R", "K", ":", ";", ";">> \o contact.address \o <<";", ";", ";", ";">> >> ELSE <<>>,
           <<<<"R", "E", "V", ":", "2", "0", "2", "6", "0", "1", "0", "1", "T", "0", "0", "0", "0", "0", "0", "Z">>, <<"E", "N", "D", ":", "V", "C", "A", "R", "D">>>> >>
  IN  Join(Flatten(lines), <<"\r", "\n">>)

\* What parseVCard knows before the first line
NothingParsed ==
  [name |-> NoString, company |-> NoString, title |-> NoString, phone |-> NoList,
   email |-> NoList, address |-> NoString]
PushValue(list, val) == IF list = NoList THEN <<val>> ELSE Append(list, val)
\* The body of lines.forEach of parseVCard
ParseLine(result, line) ==
  LET val == Trim(AfterColon(line))
      r1 == IF StartsWith(line, <<"F", "N", ":">>) \/ StartsWith(line, <<"N", "A", "M", "E", ":">>)
            THEN [result EXCEPT !.name = val] ELSE result
      r2 == IF StartsWith(line, <<"O", "R", "G", ":">>) THEN [r1 EXCEPT !.company = val] ELSE r1
      r3 == IF StartsWith(line, <<"T", "I", "T", "L", "E", ":">>) THEN [r2 EXCEPT !.title = val] ELSE r2
      r4 == IF StartsWith(line, <<"T", "E", "L">>) /\ val # <<>>
            THEN [r3 EXCEPT !.phone = PushValue(@, val)] ELSE r3
      r5 == IF StartsWith(line, <<"E", "M", "A", "I", "L">>) /\ val # <<>>
            THEN [r4 EXCEPT !.email = PushValue(@, val)] ELSE r4
  IN  IF StartsWith(line, <<"A", "D", "R", ":">>)
      THEN [r5 EXCEPT !.address = Trim(SemicolonsToSpaces(AfterColon(line)))]
      ELSE r5
RECURSIVE ParseLines(_, _)
ParseLines(result, lines) ==
  IF lines = <<>> THEN result
  ELSE ParseLines(ParseLine(result, Head(lines)), Tail(lines))
parseVCard(vcard) == ParseLines(NothingParsed, SplitLines(vcard))

VCardInit ==
  /\ PageAtRest
  /\ \E contact \in ExportedContacts :
       exchange = [stage |-> "contact", contact |-> contact]
\* The contact is exported
VCardGenerated ==
  /\ exchange.stage = "contact"
  /\ exchange' = [stage |-> "vcard", contact |-> exchange.contact,
                  text |-> generateVCard(exchange.contact)]
  /\ UNCHANGED pageVars
\* The exported text is parsed
VCardParsed ==
  /\ exchange.stage = "vcard"
  /\ exchange' = [stage |-> "parsed", contact |-> exchange.contact,
                  text |-> exchange.text, result |-> parseVCard(exchange.text)]
  /\ UNCHANGED pageVars
VCardNext == VCardGenerated \/ VCardParsed
VCardSpec == VCardInit /\ [][VCardNext]_vars

\* The same text, a missing text being the same as an empty one
SameText(a, b) == (TruthyStr(a) \/ TruthyStr(b)) => a = b
\* The same entries in the same order, a missing list being an empty one
SameList(a, b) ==
  (IF a = NoList THEN <<>> ELSE a) = (IF b = NoList THEN <<>> ELSE b)

\* C18: parsing the exported text of a contact reproduces its name, company,
\* title, phone sequence and email sequence.
C18_VCardRoundTrip ==
  exchange.stage = "parsed" =>
    /\ SameText(exchange.result.name, exchange.contact.name)
    /\ SameText(exchange.result.company, exchange.contact.company)
    /\ SameText(exchange.result.title, exchange.contact.title)
    /\ SameList(exchange.result.phone, exchange.contact.phone)
    /\ SameList(exchange.result.email, exchange.contact.email)

\* C19: for a contact with a non-empty address, parsing the exported text
\* yields the value of the exported ADR line with its semicolons replaced by
\* spaces, not a missing address.
C19_AddressLineRecognized ==
  (exchange.stage = "parsed" /\ TruthyStr(exchange.contact.address)) =>
    exchange.result.address =
      Trim(SemicolonsToSpaces(<<";", ";">> \o exchange.contact.address
                                \o <<";", ";", ";", ";">>))

(***************************************************************************)
(* CSV export (handleExportContacts) and the CSV import mapper of          *)
(* handleParseDocument, for one contact.  Papa.parse is the library's      *)
(* documented reading of a delimited text with a header row: fields are    *)
(* separated by commas and line feeds outside double quotes, and the       *)
(* quotes around a field are removed.                                      *)
(***************************************************************************)
Quote == "\""
headers == <<<<"N", "a", "m", "e">>, <<"T", "i", "t", "l", "e">>, <<"C", "o", "m", "p", "a",
      "n", "y">>, <<"P", "h", "o", "n", "e">>, <<"E", "m", "a", "i", "l">>, <<"A", "d", "d",
            "r", "e", "s", "s">>, <<"W", "e", "b", "s", "i", "t", "e">>, <<"N", "o", "t", "e",
                  "s">>>>
ExportCell(v) == <<Quote>> \o (IF TruthyStr(v) THEN v ELSE <<>>) \o <<Quote>>
ExportListCell(l) ==
  <<Quote>> \o Join(IF l = NoList THEN <<>> ELSE l, <<";", " ">>) \o <<Quote>>
\* csvContent of handleExportContacts for a collection of one contact
\* without website and notes
handleExportContacts(c) ==
  Join(<< Join(headers, <<",">>),
          Join(<< ExportCell(c.name), ExportCell(c.title), ExportCell(c.company),
                  ExportListCell(c.phone), ExportListCell(c.email),
                  ExportCell(c.address), ExportCell(NoString), ExportCell(NoString) >>,
               <<",">>) >>,
       <<"\n">>)

\* The pieces of a text between the positions of cuts
CutAt(text, cuts) ==
  LET cutAt(k) == CHOOSE i \in cuts : Cardinality({j \in cuts : j < i}) = k - 1
      from(k) == IF k = 1 THEN 1 ELSE cutAt(k - 1) + 1
      upto(k) == IF k > Cardinality(cuts) THEN Len(text) ELSE cutAt(k) - 1
  IN  [k \in 1..(Cardinality(cuts) + 1) |-> SubSeq(text, from(k), upto(k))]
\* Position i of the text is outside double quotes.
OutsideQuotes(text, i) ==
  Cardinality({j \in 1..(i - 1) : text[j] = Quote}) % 2 = 0
Unquote(field) ==
  IF Len(field) >= 2 /\ field[1] = Quote /\ field[Len(field)] = Quote
  THEN SubSeq(field, 2, Len(field) - 1) ELSE field
\* The records of a delimited text, each a list of fields
PapaRecords(text) ==
  LET lines == CutAt(text, {i \in 1..Len(text) :
                              text[i] = "\n" /\ OutsideQuotes(text, i)})
      fields(line) ==
        LET raw == CutAt(line, {i \in 1..Len(line) :
                                  line[i] = "," /\ OutsideQuotes(line, i)})
        IN  [k \in 1..Len(raw) |-> Unquote(raw[k])]
  IN  [n \in 1..Len(lines) |-> fields(lines[n])]

\* transformHeader: h.toLowerCase().trim().replace(/[^a-z0-9]/g, '')
LowerCase(c) ==
  CASE c = "A" -> "a" [] c = "C" -> "c" [] c = "E" -> "e" [] c = "N" -> "n"
    [] c = "P" -> "p" [] c = "T" -> "t" [] c = "W" -> "w" [] OTHER -> c
IsLowerAlnum(c) == c \in {"a", "b", "c", "d", "e", "f", "g", "h", "i", "j", "k", "l", "m", "n",
      "o", "p", "q", "r", "s", "t", "u", "v", "w", "x", "y", "z", "0", "1", "2", "3", "4", "5",
            "6", "7", "8", "9"}
transformHeader(h) ==
  SelectSeq([i \in 1..Len(h) |-> LowerCase(h[i])], IsLowerAlnum)

\* h.includes(k)
Includes(h, k) == \E i \in 1..(Len(h) - Len(k) + 1) : SubSeq(h, i, i + Len(k) - 1) = k
\* row[k] of the object Papa builds from the header row and a record
RowValue(keys, fields, k) ==
  IF \E i \in 1..Len(keys) : keys[i] = k /\ i <= Len(fields)
  THEN fields[CHOOSE i \in 1..Len(keys) : keys[i] = k /\ i <= Len(fields)]
  ELSE NoString
RECURSIVE findField(_, _, _)
\* findField of the mapper: the first key with a non-empty cell, under the
\* header of that name or under the first header that includes it
findField(keys, fields, wanted) ==
  IF wanted = <<>> THEN <<>>
  ELSE LET k == Head(wanted)
           matching == {i \in 1..Len(keys) : Includes(keys[i], k)}
           matchedKey == keys[CHOOSE i \in matching : \A j \in matching : i <= j]
       IN  IF TruthyStr(RowValue(keys, fields, k)) THEN RowValue(keys, fields, k)
           ELSE IF matching # {} /\ TruthyStr(RowValue(keys, fields, matchedKey))
                THEN RowValue(keys, fields, matchedKey)
                ELSE findField(keys, fields, Tail(wanted))

\* The contact the mapper pushes for a record, or nothing without a name
NoRow == [name |-> NoString]
MapRow(keys, fields) ==
  LET named == findField(keys, fields, <<<<"n", "a", "m", "e">>, <<"f", "u", "l", "l", "n",
        "a", "m", "e">>, <<"d", "i", "s", "p", "l", "a", "y", "n", "a", "m", "e">>, <<"p", "e",
              "r", "s", "o", "n">>, <<"c", "o", "n", "t", "a", "c", "t", "p", "e", "r", "s",
                    "o", "n">>, <<"e", "n", "t", "r", "y", "n", "a", "m", "e">>>>)
      firstName == findField(keys, fields, <<<<"g", "i", "v", "e", "n">>, <<"f", "i", "r", "s",
            "t">>, <<"f", "n", "a", "m", "e">>>>)
      lastName == findField(keys, fields, <<<<"f", "a", "m", "i", "l", "y">>, <<"l", "a", "s",
            "t">>, <<"l", "n", "a", "m", "e">>>>)
      contactName == IF named # <<>> THEN named
                     ELSE Join(FilterBoolean(<<firstName, lastName>>), <<" ">>)
  IN  IF contactName = <<>> THEN NoRow
      ELSE [name |-> contactName,
            title |-> findField(keys, fields, <<<<"t", "i", "t", "l", "e">>, <<"j", "o", "b">>,
                  <<"p", "o", "s", "i", "t", "i", "o", "n">>, <<"r", "o", "l", "e">>, <<"d",
                        "e", "s", "i", "g", "n", "a", "t", "i", "o", "n">>>>),
            company |-> findField(keys, fields, <<<<"c", "o", "m", "p", "a", "n", "y">>, <<"o",
                  "r", "g", "a", "n", "i", "z", "a", "t", "i", "o", "n">>, <<"f", "i", "r",
                        "m">>, <<"b", "u", "s", "i", "n", "e", "s", "s">>, <<"o", "r", "g">>>>),
            phone |-> CellList(findField(keys, fields, <<<<"p", "h", "o", "n", "e">>, <<"m",
                  "o", "b", "i", "l", "e">>, <<"t", "e", "l">>, <<"c", "e", "l", "l">>, <<"m",
                        "o", "b">>>>)),
            email |-> CellList(findField(keys, fields, <<<<"e", "m", "a", "i", "l">>, <<"m",
                  "a", "i", "l">>, <<"m", "a", "i", "l", "b", "o", "x">>, <<"e", "m", "a", "i",
                        "l", "i", "d">>>>))]
\* Papa.parse with header: true, then the mapper on the first data record
ImportCsv(text) ==
  LET records == PapaRecords(text)
      keys == [i \in 1..Len(records[1]) |-> transformHeader(records[1][i])]
  IN  IF Len(records) < 2 THEN NoRow ELSE MapRow(keys, records[2])

CsvInit ==
  /\ PageAtRest
  /\ \E contact \in ExportedContacts :
       exchange = [stage |-> "contact", contact |-> contact]
\* The contact is exported
CsvExported ==
  /\ exchange.stage = "contact"
  /\ exchange' = [stage |-> "csv", contact |-> exchange.contact,
                  text |-> handleExportContacts(exchange.contact)]
  /\ UNCHANGED pageVars
\* The exported text is read and its row mapped
CsvImported ==
  /\ exchange.stage = "csv"
  /\ exchange' = [stage |-> "mapped", contact |-> exchange.contact,
                  text |-> exchange.text, result |-> ImportCsv(exchange.text)]
  /\ UNCHANGED pageVars
CsvNext == CsvExported \/ CsvImported
CsvSpec == CsvInit /\ [][CsvNext]_vars

\* The value holds none of the characters.
Without(chars, v) == v = NoString \/ \A i \in 1..Len(v) : v[i] \notin chars
\* Every entry of the list holds none of the characters.
EntriesWithout(chars, l) == l = NoList \/ \A i \in 1..Len(l) : Without(chars, l[i])
\* No field of the contact holds a comma or a quote.
NoCommasOrQuotes(c) ==
  /\ Without({",", Quote}, c.name) /\ Without({",", Quote}, c.title)
  /\ Without({",", Quote}, c.company) /\ Without({",", Quote}, c.address)
  /\ EntriesWithout({",", Quote}, c.phone) /\ EntriesWithout({",", Quote}, c.email)
\* Every entry of the list is non-empty, has no white space at its ends and
\* holds no semicolon.
PlainEntries(l) ==
  l = NoList \/ \A i \in 1..Len(l) :
                  l[i] # <<>> /\ Trim(l[i]) = l[i] /\ Without({";"}, l[i])
\* The mapped row has the name, company, title, phone and email sequences of
\* the contact.
Reproduced(result, c) ==
  /\ result # NoRow
  /\ SameText(result.name, c.name)
  /\ SameText(result.company, c.company)
  /\ SameText(result.title, c.title)
  /\ SameList(result.phone, c.phone)
  /\ SameList(result.email, c.email)

\* C20 as stated: for every contact whose fields hold no commas or quotes,
\* mapping the row of its CSV export reproduces its name, company, title,
\* phone sequence and email sequence.
C20_CsvRoundTripWithoutCommas ==
  (exchange.stage = "mapped" /\ NoCommasOrQuotes(exchange.contact)) =>
    Reproduced(exchange.result, exchange.contact)
\* C20: for every contact whose fields hold no commas or quotes and whose
\* phone and email entries are non-empty, without white space at their ends
\* and without semicolons, mapping the row of its CSV export reproduces its
\* name, company, title, phone sequence and email sequence.
C20_CsvRoundTripOfPlainEntries ==
  (/\ exchange.stage = "mapped"
   /\ NoCommasOrQuotes(exchange.contact)
   /\ PlainEntries(exchange.contact.phone)
   /\ PlainEntries(exchange.contact.email)) =>
    Reproduced(exchange.result, exchange.contact)
\* C20 witness: a contact with two plain phone numbers has been exported and
\* its row mapped back to the same two numbers.
C20_Witness ==
  /\ exchange.stage = "mapped"
  /\ NoCommasOrQuotes(exchange.contact)
  /\ PlainEntries(exchange.contact.phone)
  /\ exchange.contact.phone # NoList /\ Len(exchange.contact.phone) = 2
  /\ exchange.result.phone = exchange.contact.phone

\* C27 (as stated): Save pressed in the review that a single-card
\* extraction has just opened commits the contact of the form, not a list
\* left by an earlier bulk review.
C27_SaveCommitsCurrentReview ==
  [][last = Completion /\ last'.op \in {"save", "saveBulk", "saveBlocked"} =>
       last'.op # "saveBulk"]_vars

(***************************************************************************)
(* Search of the dashboard: searchTerm and filteredContacts.               *)
(***************************************************************************)
\* toLowerCase
ToLowerCase(s) == [i \in 1..Len(s) |-> LowerCase(s[i])]
\* A field holds the term as it is typed
MatchesExactCase(contact, term) ==
  \/ Includes(contact.name, term)
  \/ TruthyStr(contact.company) /\ Includes(contact.company, term)
  \/ TruthyStr(contact.title) /\ Includes(contact.title, term)
  \/ TruthyStr(contact.notes) /\ Includes(contact.notes, term)
\* The callback of contacts.filter
Matches(contact, term) ==
  \/ Includes(ToLowerCase(contact.name), ToLowerCase(term))
  \/ TruthyStr(contact.company)
       /\ Includes(ToLowerCase(contact.company), ToLowerCase(term))
  \/ TruthyStr(contact.title)
       /\ Includes(ToLowerCase(contact.title), ToLowerCase(term))
  \/ TruthyStr(contact.notes)
       /\ Includes(ToLowerCase(contact.notes), ToLowerCase(term))
filteredContacts(list, term) ==
  LET kept(contact) == Matches(contact, term) IN SelectSeq(list, kept)

\* Collections of named contacts and the terms typed into the search box
SearchedContacts ==
  [name : {<<"a">>, <<"A", "t">>}, company : {NoString, <<"T">>},
   title : {NoString, <<>>, <<"t", "a">>}, notes : {NoString, <<"A">>}]
SearchedLists == UNION {[1..n -> SearchedContacts] : n \in 0..MaxShown}
SearchTerms == UNION {[1..n -> {"a", "A", "t"}] : n \in 0..MaxTerm}

\* First render of the dashboard: searchTerm is ''
SearchInit ==
  /\ PageAtRest
  /\ \E list \in SearchedLists :
       exchange = [stage |-> "search", contacts |-> list, searchTerm |-> <<>>,
                   shown |-> filteredContacts(list, <<>>)]
\* setSearchTerm from the search box, and the render that follows
setSearchTerm(term) ==
  /\ exchange.stage = "search"
  /\ term # exchange.searchTerm
  /\ exchange' = [exchange EXCEPT !.searchTerm = term,
                                  !.shown = filteredContacts(exchange.contacts, term)]
  /\ UNCHANGED pageVars
SearchNext == \E term \in SearchTerms : setSearchTerm(term)
SearchSpec == SearchInit /\ [][SearchNext]_vars

\* The text, without regard to case, holds the term.
HoldsTerm(text, term) ==
  /\ text # NoString
  /\ \E i \in 1..(Len(text) - Len(term) + 1) :
       \A j \in 1..Len(term) : LowerCase(text[i + j - 1]) = LowerCase(term[j])
\* Positions of the collection whose name, company, title or notes hold the term
Hits(list, term) ==
  {i \in 1..Len(list) :
     \/ HoldsTerm(list[i].name, term) \/ HoldsTerm(list[i].company, term)
     \/ HoldsTerm(list[i].title, term) \/ HoldsTerm(list[i].notes, term)}
\* The shown list is the collection restricted to the hits, in its order.
ShowsExactly(shown, list, hits) ==
  /\ Len(shown) = Cardinality(hits)
  /\ \A k \in 1..Len(shown) :
       \E i \in hits : shown[k] = list[i] /\ Cardinality({j \in hits : j < i}) = k - 1

\* C21: after every change of the search term the shown list holds exactly
\* the contacts whose lower-cased name, company, title or notes contain the
\* lower-cased term, in the order of the collection; the empty term shows
\* the whole collection; and the collection itself is not changed.
C21_SearchFiltersBySubstring ==
  [][exchange'.stage = "search" =>
       /\ ShowsExactly(exchange'.shown, exchange'.contacts,
                       Hits(exchange'.contacts, exchange'.searchTerm))
       /\ exchange'.searchTerm = <<>> => exchange'.shown = exchange'.contacts
       /\ exchange'.contacts = exchange.contacts]_vars
\* C21 witness: a lower-case term has been typed over a collection of two
\* contacts and only the second, whose company holds it in upper case, is
\* shown.
C21_Witness ==
  /\ exchange.stage = "search"
  /\ exchange.searchTerm = <<"t">>
  /\ Len(exchange.contacts) = 2 /\ Len(exchange.shown) = 1
  /\ exchange.shown[1] = exchange.contacts[2]
  /\ exchange.shown[1].name = <<"a">> /\ exchange.shown[1].company = <<"T">>

(***************************************************************************)
(* Initials avatars: getInitials and generateColorFromString.              *)
(***************************************************************************)
\* toUpperCase of one character
UpperCase(c) == CASE c = "a" -> "A" [] c = "z" -> "Z" [] OTHER -> c
ToUpperCase(s) == [i \in 1..Len(s) |-> UpperCase(s[i])]
\* charCodeAt of one character
CharCode(c) == CASE c = " " -> 32 [] c = "Z" -> 90 [] c = "a" -> 97 [] OTHER -> 126

RECURSIVE SplitWhitespace(_)
\* split(/\s+/): cut at every run of whitespace
SplitWhitespace(s) ==
  IF \A i \in 1..Len(s) : s[i] \notin Whitespace THEN <<s>>
  ELSE LET i == CHOOSE k \in 1..Len(s) :
                  s[k] \in Whitespace /\ \A m \in 1..(k - 1) : s[m] \notin Whitespace
           rest == SubSeq(s, i, Len(s))
       IN <<SubSeq(s, 1, i - 1)>> \o SplitWhitespace(TrimStart(rest))

getInitials(name) ==
  IF ~TruthyStr(name) THEN <<"?", "?">>
  ELSE LET parts == SplitWhitespace(Trim(name)) IN
       IF Len(parts) = 1
       THEN ToUpperCase(SubSeq(parts[1], 1, IF Len(parts[1]) < 2 THEN Len(parts[1]) ELSE 2))
       ELSE ToUpperCase(<<parts[1][1], parts[Len(parts)][1]>>)

\* A number beyond 32 bits is held in two limbs: hi * Limb + lo, 0 <= lo < Limb.
Limb == 65536
Norm(hi, lo) == [hi |-> hi + (lo \div Limb), lo |-> lo % Limb]
\* ToInt32: the operand of << and >> wraps to a signed 32-bit integer
ToInt32(w) == [hi |-> ((w.hi + 32768) % Limb) - 32768, lo |-> w.lo]
\* hash << 5
ShiftLeft5(w) == ToInt32(Norm(ToInt32(w).hi * 32, w.lo * 32))
\* hash >> 8
ShiftRight8(w) == ToInt32(w).hi * 256 + (w.lo \div 256)
Minus(a, b) == Norm(a.hi - b.hi, a.lo - b.lo)
Plus(c, w) == Norm(w.hi, w.lo + c)
\* Math.abs, of a number in two limbs and of a small one
AbsWide(w) == IF w.hi < 0 THEN Norm(0 - w.hi, 0 - w.lo) ELSE w
Signed(x) == x
Abs(x) == IF x < 0 THEN 0 - x ELSE x
\* x % m of the language: the remainder has the sign of x
Remainder(x, m) == IF x < 0 THEN 0 - ((0 - x) % m) ELSE x % m
RemainderWide(w, m) ==
  LET a == AbsWide(w)
      r == ((a.hi % m) * (Limb % m) + a.lo) % m
  IN IF w.hi < 0 THEN 0 - r ELSE r

RECURSIVE HashFrom(_, _)
\* The loop of generateColorFromString over the rest of the string
HashFrom(hash, str) ==
  IF str = <<>> THEN hash
  ELSE HashFrom(Plus(CharCode(Head(str)), Minus(ShiftLeft5(hash), hash)), Tail(str))
\* The components the template writes into hsl(h, s%, l%)
generateColorFromString(str) ==
  LET hash == HashFrom([hi |-> 0, lo |-> 0], str) IN
  [hue |-> Abs(RemainderWide(hash, 360)),
   saturation |-> 65 + RemainderWide(AbsWide(hash), 20),
   lightness |-> 50 + Remainder(Abs(ShiftRight8(hash)), 15),
   hash |-> hash]

\* Names an avatar is asked for
AvatarNames ==
  {NoString} \cup UNION {[1..n -> {"a", "Z", " ", "~"}] : n \in 0..MaxName}
InitialsInit ==
  /\ PageAtRest
  /\ \E name \in AvatarNames : exchange = [stage |-> "name", name |-> name]
\* generateInitialsAvatar up to its call of getInitials
InitialsTaken ==
  /\ exchange.stage = "name"
  /\ exchange' = [stage |-> "initials", name |-> exchange.name,
                  initials |-> getInitials(exchange.name)]
  /\ UNCHANGED pageVars
\* generateInitialsAvatar from there: the background colour, when none is
\* given; str.length of a missing name throws
ColorTaken ==
  /\ exchange.stage = "initials"
  /\ exchange' = IF exchange.name = NoString
                 THEN [stage |-> "thrown", name |-> exchange.name]
                 ELSE [stage |-> "color", name |-> exchange.name,
                       initials |-> exchange.initials,
                       bgColor |-> generateColorFromString(exchange.name)]
  /\ UNCHANGED pageVars
InitialsNext == InitialsTaken \/ ColorTaken
InitialsSpec == InitialsInit /\ [][InitialsNext]_vars

\* C22 (as stated): the initials of every name are exactly two upper-case
\* characters, or ?? for an empty or missing name.
C22_TwoInitials ==
  exchange.stage = "initials" =>
    IF ~TruthyStr(exchange.name) THEN exchange.initials = <<"?", "?">>
    ELSE /\ Len(exchange.initials) = 2
         /\ \A i \in 1..2 : UpperCase(exchange.initials[i]) = exchange.initials[i]

\* C23: for every seed string the hue is in [0, 360), the saturation in
\* [65, 85) and the lightness in [50, 65), whatever the sign of the hash and
\* however often it wrapped.
C23_ColorInRange ==
  exchange.stage = "color" =>
    /\ exchange.bgColor.hue \in 0..359
    /\ exchange.bgColor.saturation \in 65..84
    /\ exchange.bgColor.lightness \in 50..64
\* C23 witness: a colour drawn from a hash that is negative and outside the
\* signed 32-bit range.
C23_Witness ==
  /\ exchange.stage = "color"
  /\ exchange.bgColor.hash.hi < 0 - 32768
  /\ exchange.bgColor.hue > 0 /\ exchange.bgColor.lightness > 50

(***************************************************************************)
(* BarcodeScanner: one component, kept mounted by its parent, whose isOpen *)
(* prop the parent clears in onClose.                                      *)
(***************************************************************************)
BarcodeTexts == {"vcard", "text"}
ScannerClosed ==
  [stage |-> "scanner", isOpen |-> FALSE, listing |-> FALSE, decoding |-> FALSE,
   scanning |-> FALSE, error |-> Null, detectedData |-> Null, timers |-> <<>>,
   delivered |-> "none", event |-> "mount"]
ScannerInit == PageAtRest /\ exchange = ScannerClosed

\* The parent sets isOpen; the effect makes a reader and runs startScanning
\* up to its await of listVideoInputDevices.  One reader at a time.
OpenScanner ==
  /\ exchange.stage = "scanner"
  /\ ~exchange.isOpen /\ ~exchange.listing /\ ~exchange.decoding
  /\ exchange' = [exchange EXCEPT !.isOpen = TRUE, !.listing = TRUE,
                                  !.scanning = TRUE, !.error = Null,
                                  !.delivered = "none", !.event = "open"]
  /\ UNCHANGED pageVars
\* startScanning resumes: no device, a rejection, or decodeFromVideoDevice,
\* which nothing makes conditional on the scanner still being open
DevicesListed(outcome) ==
  /\ exchange.stage = "scanner"
  /\ exchange.listing
  /\ exchange' =
       IF outcome = "devices"
       THEN [exchange EXCEPT !.listing = FALSE, !.decoding = TRUE, !.event = "listed"]
       ELSE [exchange EXCEPT !.listing = FALSE, !.scanning = FALSE,
                             !.error = outcome, !.event = "listed"]
  /\ UNCHANGED pageVars
\* The decode callback with a result: setDetectedData and a timeout of one
\* second; the reader goes on decoding
DecoderReports(text) ==
  /\ exchange.stage = "scanner"
  /\ exchange.decoding
  /\ Len(exchange.timers) < MaxTimers
  /\ exchange' = [exchange EXCEPT !.detectedData = text,
                                  !.timers = Append(@, text), !.event = "result"]
  /\ UNCHANGED pageVars
\* handleClose: reset of the reader, the three setters, and onClose
scannerHandleClose(scanner) ==
  [scanner EXCEPT !.decoding = FALSE, !.scanning = FALSE, !.detectedData = Null,
                  !.error = Null, !.isOpen = FALSE]
\* A timeout runs: onScanSuccess(barcodeData), then handleClose
TimerFires ==
  /\ exchange.stage = "scanner"
  /\ exchange.timers # <<>>
  /\ exchange' = [scannerHandleClose(exchange) EXCEPT
                    !.timers = Tail(@),
                    !.delivered = IF @ = "none" THEN "once" ELSE "more",
                    !.event = "onScanSuccess"]
  /\ UNCHANGED pageVars
\* The close button
CloseScanner ==
  /\ exchange.stage = "scanner"
  /\ exchange.isOpen
  /\ exchange' = [scannerHandleClose(exchange) EXCEPT !.event = "close"]
  /\ UNCHANGED pageVars
ScannerNext ==
  \/ OpenScanner
  \/ \E outcome \in {"devices", "No camera found on this device", "Failed to access camera"} :
       DevicesListed(outcome)
  \/ \E text \in BarcodeTexts : DecoderReports(text)
  \/ TimerFires
  \/ CloseScanner
ScannerSpec == ScannerInit /\ [][ScannerNext]_vars

\* C24 (as stated): onScanSuccess is invoked only while the scanner is open,
\* and only if it was not invoked before in that open session.
C24_OneScanPerSession ==
  [][exchange'.stage = "scanner" /\ exchange'.event = "onScanSuccess" =>
       exchange.isOpen /\ exchange.delivered = "none"]_vars

(***************************************************************************)
(* generateResearchPaper: the text of the model's response is cleaned and  *)
(* parsed.  A text is a sequence of pieces: FENCE, the word json, white    *)
(* space, the punctuation of JSON, member names, and characters.           *)
(***************************************************************************)
PaperStrings == {<<"a">>, <<Fence, " ">>}
PaperSections == [heading : PaperStrings, content : {<<"a", "\n">>}]
Papers ==
  [title : PaperStrings, abstract : PaperStrings,
   sections : UNION {[1..n -> PaperSections] : n \in 0..MaxSections},
   conclusion : {<<" ">>},
   developmentIdeas : UNION {[1..n -> PaperStrings] : n \in 0..MaxIdeas},
   thumbnailPrompt : {<<"a", Fence>>}]

\* JSON.stringify of a string without quotes or backslashes, of a list, of a
\* section and of a paper
QuotedString(s) == <<"\"">> \o s \o <<"\"">>
RECURSIVE JoinTexts(_)
JoinTexts(texts) ==
  IF texts = <<>> THEN <<>>
  ELSE IF Len(texts) = 1 THEN texts[1]
       ELSE texts[1] \o <<",">> \o JoinTexts(Tail(texts))
ArrayText(texts) == <<"[">> \o JoinTexts(texts) \o <<"]">>
SectionText(section) ==
  <<"{", "heading:">> \o QuotedString(section.heading)
    \o <<",", "content:">> \o QuotedString(section.content) \o <<"}">>
PaperText(paper) ==
  <<"{", "title:">> \o QuotedString(paper.title)
    \o <<",", "abstract:">> \o QuotedString(paper.abstract)
    \o <<",", "sections:">>
    \o ArrayText([i \in 1..Len(paper.sections) |-> SectionText(paper.sections[i])])
    \o <<",", "conclusion:">> \o QuotedString(paper.conclusion)
    \o <<",", "developmentIdeas:">>
    \o ArrayText([i \in 1..Len(paper.developmentIdeas) |->
                    QuotedString(paper.developmentIdeas[i])])
    \o <<",", "thumbnailPrompt:">> \o QuotedString(paper.thumbnailPrompt) \o <<"}">>
\* JSON.parse of a text: the paper it is the text of, white space around it
\* allowed; any other text throws
ParsePaper(text) ==
  LET u == Trim(text)
      read == {paper \in Papers : PaperText(paper) = u}
  IN  IF read = {} THEN SyntaxError
      ELSE [type |-> "paper", paper |-> CHOOSE paper \in read : TRUE]

\* Every fence of the text removed, wherever it stands
CleanEveryFence(jsonStr) ==
  LET kept(piece) == piece # Fence IN Trim(SelectSeq(jsonStr, kept))
\* if (jsonStr.startsWith(FENCE)):
\* .replace(/^FENCEjson/, '').replace(/^FENCE/, '').replace(/FENCE$/, '').trim()
CleanFences(jsonStr) ==
  IF jsonStr = <<>> \/ jsonStr[1] # Fence THEN jsonStr
  ELSE LET a == IF Len(jsonStr) >= 2 /\ jsonStr[2] = "json"
                THEN SubSeq(jsonStr, 3, Len(jsonStr)) ELSE jsonStr
           b == IF a # <<>> /\ a[1] = Fence THEN Tail(a) ELSE a
           c == IF b # <<>> /\ b[Len(b)] = Fence THEN SubSeq(b, 1, Len(b) - 1) ELSE b
       IN Trim(c)

\* The texts a model answers with: the text of a paper, white space around
\* it or not, inside a fence or not
ResponseTexts(paper) ==
  {lead \o (IF fenced THEN <<Fence, "json", "\n">> ELSE <<>>) \o PaperText(paper)
     \o (IF fenced THEN <<"\n", Fence>> ELSE <<>>) \o trail :
     lead \in {<<>>, <<"\n">>}, trail \in {<<>>, <<" ">>}, fenced \in BOOLEAN}
PaperInit ==
  /\ PageAtRest
  /\ \E paper \in Papers : \E text \in ResponseTexts(paper) :
       exchange = [stage |-> "response", paper |-> paper, text |-> text]
\* generateResearchPaper up to the cleaned text
ResponseCleaned ==
  /\ exchange.stage = "response"
  /\ exchange' = [stage |-> "cleaned", paper |-> exchange.paper, text |-> exchange.text,
                  jsonStr |-> CleanFences(Trim(exchange.text))]
  /\ UNCHANGED pageVars
\* generateResearchPaper from there: the empty check, JSON.parse, and the
\* catch that rethrows
PaperSettled ==
  /\ exchange.stage = "cleaned"
  /\ LET parsed == IF exchange.jsonStr = <<>> THEN SyntaxError
                   ELSE ParsePaper(exchange.jsonStr)
     IN exchange' = [stage |-> "settled", paper |-> exchange.paper, text |-> exchange.text,
                     outcome |-> IF parsed = SyntaxError
                                 THEN [status |-> "thrown"]
                                 ELSE [status |-> "returned", value |-> parsed.paper]]
  /\ UNCHANGED pageVars
PaperNext == ResponseCleaned \/ PaperSettled
PaperSpec == PaperInit /\ [][PaperNext]_vars

\* The text is a JSON object: it begins, after white space, with its brace.
IsObjectText(text) == Trim(text) # <<>> /\ Trim(text)[1] = "{"

\* C25: when the response text is the JSON object of a paper, the call
\* returns a paper with the same title, abstract, conclusion and thumbnail
\* prompt and the same sections and ideas, in number and order.
C25_PaperReturnedAsSent ==
  exchange.stage = "settled" /\ IsObjectText(exchange.text) =>
    /\ exchange.outcome.status = "returned"
    /\ LET got == exchange.outcome.value
           sent == exchange.paper
       IN /\ got.title = sent.title /\ got.abstract = sent.abstract
          /\ got.conclusion = sent.conclusion
          /\ got.thumbnailPrompt = sent.thumbnailPrompt
          /\ Len(got.sections) = Len(sent.sections)
          /\ \A i \in 1..Len(sent.sections) : got.sections[i] = sent.sections[i]
          /\ Len(got.developmentIdeas) = Len(sent.developmentIdeas)
          /\ \A i \in 1..Len(sent.developmentIdeas) :
               got.developmentIdeas[i] = sent.developmentIdeas[i]
\* C25 witness: a paper whose title holds a fence, with two different
\* sections and two different ideas, was sent as a JSON object with white
\* space around it and has been returned.
C25_Witness ==
  /\ exchange.stage = "settled" /\ IsObjectText(exchange.text)
  /\ exchange.text # Trim(exchange.text)
  /\ exchange.outcome.status = "returned"
  /\ Fence = exchange.paper.title[1]
  /\ Len(exchange.paper.sections) = 2
  /\ exchange.paper.sections[1] # exchange.paper.sections[2]
  /\ Len(exchange.paper.developmentIdeas) = 2
  /\ exchange.paper.developmentIdeas[1] # exchange.paper.developmentIdeas[2]

(***************************************************************************)
(* App: the authentication listener, sign-in and sign-out, the routes, and *)
(* saveToGoogleContacts, which reads the token sign-in left in             *)
(* sessionStorage.                                                         *)
(***************************************************************************)
Paths == {"/", "/dashboard", "/research", "/admin", "/ar-view/1", "/elsewhere"}
Navigate(to) == [kind |-> "navigate", to |-> to]
Page(name) == [kind |-> "page", name |-> name]
\* The element of every route with its guard left out
RouteElementUnguarded(path, currentUser) ==
  CASE path = "/" -> Navigate("/dashboard")
    [] path = "/dashboard" -> Page("DashboardPage")
    [] path = "/research" -> Page("ResearchPage")
    [] path = "/ar-view/1" -> Page("ArViewPage")
    [] path = "/admin" -> Page("AdminPage")
    [] OTHER -> Page("NotFound")
\* The element of the route that matches the path
RouteElement(path, currentUser) ==
  CASE path = "/" -> Navigate("/dashboard")
    [] path = "/dashboard" -> Page("DashboardPage")
    [] path = "/research" -> Page("ResearchPage")
    [] path = "/ar-view/1" ->
         IF currentUser # Null THEN Page("ArViewPage") ELSE Navigate("/dashboard")
    [] path = "/admin" ->
         IF currentUser # Null THEN Page("AdminPage") ELSE Navigate("/dashboard")
    [] OTHER -> Page("NotFound")
\* The render of App: the loading screen, or the routes, where a Navigate
\* element replaces the location
Rendered(app) ==
  IF app.loadingAuth THEN app
  ELSE LET element == RouteElement(app.location, app.currentUser) IN
       IF element.kind = "navigate" THEN [app EXCEPT !.location = element.to] ELSE app
\* What the screen shows
View(app) ==
  IF app.loadingAuth THEN "Loading"
  ELSE RouteElement(app.location, app.currentUser).name

\* The listener sets the user and nothing else
CallbackSetsUserOnly(app, firebaseUser) ==
  [app EXCEPT !.currentUser = firebaseUser, !.authError = Null]
\* The callback given to onAuthStateChanged
AuthStateChanged(app, firebaseUser) ==
  [app EXCEPT !.currentUser = firebaseUser, !.loadingAuth = FALSE, !.authError = Null]

\* The first render of App at any URL, Firebase configured or not, an empty
\* sessionStorage
AppInit ==
  /\ PageAtRest
  /\ \E configured \in BOOLEAN, path \in Paths :
       exchange = [stage |-> "app", configured |-> configured, effectRan |-> FALSE,
                   authReady |-> FALSE, authUser |-> Null, loadingAuth |-> TRUE,
                   currentUser |-> Null, authError |-> Null, token |-> Null,
                   requested |-> path, location |-> path, pending |-> "none",
                   request |-> Null, result |-> Null, event |-> "mount"]
\* The effect of App
AuthEffect ==
  /\ exchange.stage = "app"
  /\ ~exchange.effectRan
  /\ exchange' = Rendered([exchange EXCEPT
                             !.effectRan = TRUE,
                             !.loadingAuth = IF exchange.configured THEN @ ELSE FALSE,
                             !.event = "effect"])
  /\ UNCHANGED pageVars
\* Firebase resolves the persisted session and the listener runs first
AuthResolved(firebaseUser) ==
  /\ exchange.stage = "app"
  /\ exchange.configured /\ exchange.effectRan /\ ~exchange.authReady
  /\ exchange' = Rendered([AuthStateChanged(exchange, firebaseUser) EXCEPT
                             !.authReady = TRUE, !.authUser = firebaseUser,
                             !.event = "listener"])
  /\ UNCHANGED pageVars
\* The sign-in button of Navbar: handleLogin up to its await
handleLogin ==
  /\ exchange.stage = "app"
  /\ ~exchange.loadingAuth /\ exchange.currentUser = Null /\ exchange.pending = "none"
  /\ exchange' = IF ~exchange.configured
                 THEN [exchange EXCEPT !.authError = "firebaseNotConfigured",
                                       !.event = "login"]
                 ELSE [exchange EXCEPT !.authError = Null, !.pending = "signIn",
                                       !.event = "login"]
  /\ UNCHANGED pageVars
\* signInWithPopup settles: a credential with or without an access token,
\* and the listener runs; or a rejection
LoginSettled(outcome) ==
  /\ exchange.stage = "app"
  /\ exchange.pending = "signIn"
  /\ exchange' =
       IF outcome = "rejected"
       THEN [exchange EXCEPT !.pending = "none", !.authError = "signIn",
                             !.event = "loginFailed"]
       ELSE Rendered([AuthStateChanged(exchange, "user") EXCEPT
                        !.pending = "none", !.authUser = "user",
                        !.token = IF outcome = "token" THEN "accessToken" ELSE @,
                        !.event = "signedIn"])
  /\ UNCHANGED pageVars
\* The sign-out entry of Navbar: handleLogout up to its await
handleLogout ==
  /\ exchange.stage = "app"
  /\ ~exchange.loadingAuth /\ exchange.currentUser # Null /\ exchange.pending = "none"
  /\ exchange' = IF ~exchange.configured
                 THEN [exchange EXCEPT !.authError = "firebaseNotConfigured",
                                       !.event = "logout"]
                 ELSE [exchange EXCEPT !.authError = Null, !.pending = "signOut",
                                       !.event = "logout"]
  /\ UNCHANGED pageVars
\* signOut settles: the listener runs with no user; or a rejection
LogoutSettled(ok) ==
  /\ exchange.stage = "app"
  /\ exchange.pending = "signOut"
  /\ exchange' =
       IF ~ok
       THEN [exchange EXCEPT !.pending = "none", !.authError = "signOut",
                             !.event = "logoutFailed"]
       ELSE Rendered([AuthStateChanged(exchange, Null) EXCEPT
                        !.pending = "none", !.authUser = Null, !.event = "signedOut"])
  /\ UNCHANGED pageVars
\* The user follows a link or types a URL
GoTo(path) ==
  /\ exchange.stage = "app"
  /\ path # exchange.location
  /\ exchange' = Rendered([exchange EXCEPT !.requested = path, !.location = path,
                                           !.event = "goto"])
  /\ UNCHANGED pageVars
\* saveToGoogleContacts up to its fetch; request is the bearer token of the
\* POST to people.googleapis.com
saveToGoogleContacts ==
  /\ exchange.stage = "app"
  /\ LET token == exchange.token IN
     exchange' = IF token = Null
                 THEN [exchange EXCEPT !.request = Null,
                                       !.result = "Not authenticated with Google",
                                       !.event = "saveToGoogle"]
                 ELSE [exchange EXCEPT !.request = token,
                                       !.result = "awaited",
                                       !.event = "saveToGoogle"]
  /\ exchange' # exchange
  /\ UNCHANGED pageVars
AppNext ==
  \/ AuthEffect
  \/ \E firebaseUser \in {Null, "user"} : AuthResolved(firebaseUser)
  \/ handleLogin
  \/ \E outcome \in {"token", "noToken", "rejected"} : LoginSettled(outcome)
  \/ handleLogout
  \/ \E ok \in BOOLEAN : LogoutSettled(ok)
  \/ \E path \in Paths : GoTo(path)
  \/ saveToGoogleContacts
AppSpec == AppInit /\ [][AppNext]_vars
\* React runs the effect of a mounted component
AppLiveSpec == AppSpec /\ WF_vars(AuthEffect)

\* The listener has delivered its first state, or the effect found Firebase
\* not configured.
AuthSettled ==
  exchange.stage = "app" /\
    (exchange.authReady \/ (~exchange.configured /\ exchange.effectRan))
\* C26: once the listener has delivered its first state, or the effect has
\* found Firebase not configured (which it does, the effect being run),
\* the App shows the Navbar and not the loading screen, from then on.
C26_LeavesLoadingForGood ==
  /\ [](AuthSettled => [](View(exchange) # "Loading"))
  /\ (exchange.stage = "app" /\ ~exchange.configured) ~> (View(exchange) # "Loading")
\* C26 witness: the listener has delivered a signed-out state, a sign-in
\* was then rejected, and the Navbar is shown.
C26_Witness ==
  /\ AuthSettled /\ exchange.configured
  /\ exchange.event = "loginFailed"
  /\ View(exchange) # "Loading"

\* C28 (as stated): a call of saveToGoogleContacts made while the user is
\* signed out sends no request and returns the not-authenticated result.
C28_NoRequestAfterSignOut ==
  [][exchange'.stage = "app" /\ exchange'.event = "saveToGoogle"
       /\ exchange.authReady /\ exchange.authUser = Null =>
         /\ exchange'.request = Null
         /\ exchange'.result = "Not authenticated with Google"]_vars

\* C30: the admin and AR pages are on screen only with a current user; with
\* none, once loading is over, a request for either has led to /dashboard.
Protected == {"/admin", "/ar-view/1"}
C30_ProtectedRoutesNeedUser ==
  exchange.stage = "app" =>
    /\ View(exchange) \in {"AdminPage", "ArViewPage"} => exchange.currentUser # Null
    /\ ~exchange.loadingAuth /\ exchange.currentUser = Null
         /\ exchange.requested \in Protected => exchange.location = "/dashboard"
\* C30 witness: the user signed out while on the admin page and is on the
\* dashboard.
C30_Witness ==
  /\ exchange.stage = "app"
  /\ exchange.event = "signedOut"
  /\ exchange.requested = "/admin"
  /\ exchange.location = "/dashboard" /\ View(exchange) = "DashboardPage"

(***************************************************************************)
(* The service worker: install, activate and fetch.  A URL is a sequence   *)
(* of pieces; url.includes(word) looks for the word among them.            *)
(***************************************************************************)
CACHE_NAME == "ai-card-manager-cache-v2"
PRECACHE_URLS ==
  << <<"/">>, <<"./", "index.html">>, <<"./", "manifest.json">>, <<"./", "icon-192.png">>,
     <<"./", "icon-512.png">>, <<"./", "maskable-icon-512.png">>,
     <<"https://", "cdn.tailwindcss.com">>,
     <<"https://", "fonts.", "googleapis.com", "/css2">> >>
\* Other URLs the page requests
OtherUrls ==
  { <<"./", "locales/en.json">>, <<"./", "assets/index.js">>,
    <<"https://", "generativelanguage.", "googleapis.com", "/v1beta">>,
    <<"https://", "identitytoolkit.", "googleapis.com", "/v1">>,
    <<"https://", "app.", "firebase", "io.com">> }
RequestedUrls == {PRECACHE_URLS[i] : i \in 1..Len(PRECACHE_URLS)} \cup OtherUrls
isApiCall(url) == Includes(url, <<"googleapis.com">>) \/ Includes(url, <<"firebase">>)
NoRequest == <<>>
NothingServed == [url |-> NoRequest, from |-> "none"]

\* A browser that registers the worker; an older version may have left a cache
WorkerInit ==
  /\ PageAtRest
  /\ \E old \in SUBSET {"ai-card-manager-cache-v1"} :
       exchange = [stage |-> "worker", phase |-> "registered", caches |-> old,
                   cache |-> {}, revalidating |-> NoRequest, waiting |-> FALSE,
                   served |-> NothingServed]
\* install: caches.open and cache.addAll, which stores every response or,
\* one request failing, none; the failure is caught
Install(fetched) ==
  /\ exchange.stage = "worker"
  /\ exchange.phase = "registered"
  /\ exchange' = [exchange EXCEPT
                    !.phase = "installed",
                    !.caches = @ \cup {CACHE_NAME},
                    !.cache = IF fetched
                              THEN @ \cup {PRECACHE_URLS[i] : i \in 1..Len(PRECACHE_URLS)}
                              ELSE @]
  /\ UNCHANGED pageVars
\* activate: clients.claim and the deletion of every other cache
Activate ==
  /\ exchange.stage = "worker"
  /\ exchange.phase = "installed"
  /\ exchange' = [exchange EXCEPT !.phase = "active",
                                  !.caches = {name \in @ : name = CACHE_NAME}]
  /\ UNCHANGED pageVars
\* fetch: requests the handler leaves to the browser, and those it answers
\* from the cache while it asks the network, or from the network alone.
\* One request of the handler awaits the network at a time.
FetchEvent(method, url) ==
  /\ exchange.stage = "worker"
  /\ exchange.phase = "active"
  /\ exchange.revalidating = NoRequest
  /\ exchange' =
       IF method # "GET" \/ isApiCall(url)
       THEN [exchange EXCEPT !.served = [url |-> url, from |-> "browser"]]
       ELSE [exchange EXCEPT
               !.caches = @ \cup {CACHE_NAME},
               !.revalidating = url,
               !.waiting = url \notin exchange.cache,
               !.served = IF url \in exchange.cache
                          THEN [url |-> url, from |-> "cache"] ELSE NothingServed]
  /\ exchange' # exchange
  /\ UNCHANGED pageVars
\* The network answers the handler: a response of status 200 is put into
\* the cache; the response, or undefined after a failure, answers a request
\* that found nothing cached
NetworkAnswered(answer) ==
  /\ exchange.stage = "worker"
  /\ exchange.revalidating # NoRequest
  /\ exchange' = [exchange EXCEPT
                    !.revalidating = NoRequest,
                    !.waiting = FALSE,
                    !.cache = IF answer = "200" THEN @ \cup {exchange.revalidating} ELSE @,
                    !.served = IF exchange.waiting
                               THEN [url |-> exchange.revalidating,
                                     from |-> IF answer = "failed" THEN "nothing"
                                              ELSE "network"]
                               ELSE @]
  /\ UNCHANGED pageVars
WorkerNext ==
  \/ \E fetched \in BOOLEAN : Install(fetched)
  \/ Activate
  \/ \E method \in {"GET", "POST"}, url \in RequestedUrls : FetchEvent(method, url)
  \/ \E answer \in {"200", "404", "failed"} : NetworkAnswered(answer)
WorkerSpec == WorkerInit /\ [][WorkerNext]_vars

\* C29 (as stated): the cache of the worker holds no response for a URL
\* that contains googleapis.com or firebase, and no such request is answered
\* from the cache.
C29_ApiUrlsNeverCached ==
  exchange.stage = "worker" =>
    /\ \A url \in exchange.cache : ~isApiCall(url)
    /\ exchange.served.from = "cache" => ~isApiCall(exchange.served.url)

====
